---- MODULE Spec2Model ----
(***************************************************************************)
(* A model of the GitHub -> Scout ingestion code of se-rag-prep:           *)
(*   - the URL resolver (parse_github_url),                                *)
(*   - the Scout provisioning assets (scout_collection, scout_table),      *)
(*   - the ingestion asset (github_table_fill) with the repository and     *)
(*     gist fetchers of GitHubResource,                                    *)
(*   - the flattener (flatten_repository_to_markdown), the gist fetcher    *)
(*     (get_gist_content) and the description extractor                    *)
(*     (extract_description_from_content) of GitHubResource,               *)
(*   - the clone strategies of the downloader (clone_repository,           *)
(*     clone_subdirectory),                                                *)
(*   - the downloader's run (GitHubDownloader.run) with its repository     *)
(*     phase (download_repositories, get_target_directory).                *)
(* Strings are sequences of tokens: "/" is the path separator, every other *)
(* token is an atomic piece of text (a name such as "tree" or "a").        *)
(***************************************************************************)
EXTENDS Integers, Sequences, FiniteSets, TLC

VARIABLES
    \* ---- URL resolver ----
    segs,       \* the segments the input URL's path was written from
    url,        \* the input URL handed to parse_github_url
    parsed,     \* the value parse_github_url returned (NotRun before the call)
    \* ---- component configuration (GitHubRepositoriesComponent) ----
    repositories,           \* List[GitHubRepoConfig]
    gists,                  \* List[GitHubGistConfig], by id
    force_recreate_table,   \* bool
    envCollectionId,        \* os.getenv("SCOUTOS_COLLECTION_ID"); 0 = unset
    \* ---- the remote Scout store and the Dagster instance ----
    remoteCollections,      \* list of [id, name]
    remoteTables,           \* list of [id, name, coll]
    nextId,                 \* the id the store gives to the next object
    tableMat,               \* table_id of the latest github_scout_table
                            \* materialization; 0 = no materialization
    \* ---- one run ----
    runs,                   \* runs started so far
    pc,                     \* the step the run is at
    calls,                  \* HTTP requests sent to Scout in this run
    writes,                 \* invocations of write_documents in this run
    error,                  \* what the run raised ("none" when nothing)
    finished,               \* the runs that ended, oldest first: what each
                            \* asked of Scout to provision and what it returned
    collResult,             \* scout_collection's MaterializeResult metadata
    tableResult,            \* scout_table's MaterializeResult metadata
    tables,                 \* scout_table's local: the list get_tables returned
    existing_table,         \* scout_table's local: id of the table found, 0 = None
    new_table_id,           \* scout_table's local table_id after create_table
    \* ---- github_table_fill ----
    table_id,               \* its local table_id
    all_documents,
    repos_processed,
    gists_processed,
    i,                      \* position of the repository loop
    j,                      \* position of the gist loop
    documents,              \* get_repository_content's local list
    exc,                    \* an exception is unwinding get_repository_content
    checkouts,              \* temporary checkout directories on disk
    attempted,              \* sources handed to a fetcher, in order
    outcomes,               \* what each attempted source's fetch came to
    report,                 \* github_table_fill's MaterializeResult metadata
    \* ---- flatten_repository_to_markdown ----
    root,                   \* repo_path: "dir", "missing" or "unlistable"
    tree,                   \* the entries below repo_path, .git apart
    gitdir,                 \* repo_path/.git: "absent", "origin", "no_origin"
    clock,                  \* the wall clock, in seconds
    flat,                   \* what each call of the flattener returned, in order
    \* ---- get_gist_content ----
    gistId,                 \* the gist_id asked for
    reply,                  \* what the GitHub API answers
    gistResult,             \* what get_gist_content came to (NotFetched before)
    \* ---- extract_description_from_content ----
    content,                \* the markdown handed in, as lines
    description,            \* the string returned (NotExtracted before)
    \* ---- GitHubDownloader.clone_repository / clone_subdirectory ----
    strategy,               \* "none", "full" or "sparse"
    step,                   \* the position in the steps of clone_subdirectory
    commands,               \* the git commands and file operations run, in order
    cloneResult,            \* "pending", "success", "failure" or "raised"
    \* ---- GitHubDownloader.run / download_repositories ----
    repoUrls,               \* the list `repositories` of download_repositories
    disk,                   \* each destination directory: what it holds, and the
                            \* source whose fetch last wrote to it (0 = none)
    results,                \* download_repositories' results, by position
    gitCalls,               \* the sources clone_repository was called for
    phase,                  \* where run() and main are
    completed,              \* the phases of run() that returned, in order
    downloads               \* calls of run() so far

resolverVars == <<segs, url, parsed>>

flattenVars == <<root, tree, gitdir, clock, flat>>

gistVars == <<gistId, reply, gistResult>>

extractVars == <<content, description>>

cloneVars == <<strategy, step, commands, cloneResult>>

downloadVars == <<repoUrls, disk, results, gitCalls, phase, completed, downloads>>

libraryVars ==
    <<resolverVars, flattenVars, gistVars, extractVars, cloneVars, downloadVars>>

configVars == <<repositories, gists, force_recreate_table, envCollectionId>>

storeVars == <<remoteCollections, remoteTables, nextId, tableMat>>

provisionVars == <<collResult, tableResult, tables, existing_table, new_table_id>>

fillVars == <<table_id, all_documents, repos_processed, gists_processed, i, j,
              documents, exc, checkouts, attempted, outcomes, report>>

runVars == <<runs, finished, pc, calls, writes, error>>

pipelineVars == <<configVars, storeVars, provisionVars, fillVars, runVars>>

vars == <<libraryVars, pipelineVars>>

(***************************************************************************)
(* Bounds                                                                  *)
(***************************************************************************)
MaxSegs == 7
MaxRepos == 2
MaxGists == 2
MaxRuns == 2
MaxFiles == 3
MaxFlattens == 2
MaxGistFiles == 2
MaxStretches == 3
MaxSources == 2
MaxDownloads == 2

(***************************************************************************)
(* Text helpers: Python's str.strip("/"), str.split("/") and "/".join      *)
(***************************************************************************)
Sep == "/"

RECURSIVE LStrip(_)
LStrip(s) == IF s # <<>> /\ Head(s) = Sep THEN LStrip(Tail(s)) ELSE s

RECURSIVE RStrip(_)
RStrip(s) ==
    IF s # <<>> /\ s[Len(s)] = Sep THEN RStrip(SubSeq(s, 1, Len(s) - 1)) ELSE s

Strip(s) == RStrip(LStrip(s))

\* s.split("/"): always at least one part; "a//b" has an empty middle part.
RECURSIVE SplitAcc(_, _, _)
SplitAcc(s, cur, acc) ==
    IF s = <<>> THEN Append(acc, cur)
    ELSE IF Head(s) = Sep THEN SplitAcc(Tail(s), <<>>, Append(acc, cur))
    ELSE SplitAcc(Tail(s), Append(cur, Head(s)), acc)

Split(s) == SplitAcc(s, <<>>, <<>>)

\* "/".join(parts)
RECURSIVE Join(_)
Join(parts) ==
    IF parts = <<>> THEN <<>>
    ELSE IF Len(parts) = 1 THEN parts[1]
    ELSE parts[1] \o <<Sep>> \o Join(Tail(parts))

(***************************************************************************)
(* Optional values: Python's None against a present string                 *)
(***************************************************************************)
None == [present |-> FALSE, val |-> <<>>]
Some(s) == [present |-> TRUE, val |-> s]

(***************************************************************************)
(* URL resolver: parse_github_url                                          *)
(***************************************************************************)
\* A URL: its scheme and host, and the tokens of its path.  ok = FALSE is a
\* string urlparse rejects with ValueError (such as "https://[github.com").
MkUrl(path) == [ok |-> TRUE, host |-> "https://github.com", path |-> path]
MalformedUrl == [ok |-> FALSE, host |-> "https://[github.com", path |-> <<>>]

\* f"https://github.com/{owner}/{repo}.git"
BaseUrl(owner, repo) ==
    MkUrl(<<Sep>> \o owner \o <<Sep>> \o repo \o <<".git">>)

\* (url, None, None)
Fallback(u) == [raised |-> FALSE, repoURL |-> u, branch |-> None, subdirectory |-> None]

\* parsed.path.strip("/").split("/")
PathParts(u) == Split(Strip(u.path))

SubdirectoryFromThird(path_parts) ==
    IF Len(path_parts) > 4
    THEN Some(Join(SubSeq(path_parts, 4, Len(path_parts))))
    ELSE None

SubdirectoryAlwaysJoined(path_parts) ==
    Some(Join(SubSeq(path_parts, 5, Len(path_parts))))

\* "/".join(path_parts[4:]) if len(path_parts) > 4 else None
Subdirectory(path_parts) ==
    IF Len(path_parts) > 4
    THEN Some(Join(SubSeq(path_parts, 5, Len(path_parts))))
    ELSE None

ParseErrorPropagates(u) ==
    [raised |-> TRUE, repoURL |-> u, branch |-> None, subdirectory |-> None]

\* except Exception: log and return url, None, None
ParseError(u) == Fallback(u)

parse_github_url(u) ==
    IF ~u.ok THEN ParseError(u)
    ELSE LET path_parts == PathParts(u) IN
         IF Len(path_parts) < 2 THEN Fallback(u)
         ELSE IF Len(path_parts) >= 4 /\ path_parts[3] = <<"tree">>
              THEN [raised       |-> FALSE,
                    repoURL      |-> BaseUrl(path_parts[1], path_parts[2]),
                    branch       |-> Some(path_parts[4]),
                    subdirectory |-> Subdirectory(path_parts)]
              ELSE Fallback(u)

NotRun == [raised |-> FALSE, repoURL |-> MalformedUrl, branch |-> None,
           subdirectory |-> None, run |-> FALSE]

(***************************************************************************)
(* GitHubDownloader.clone_repository and clone_subdirectory                *)
(***************************************************************************)
\* What clone_subdirectory does, in the order of its code.
sparse_steps ==
    <<"mkdir", "init", "remote_add", "config", "write_rule", "fetch", "checkout",
      "verify">>

\* One git command or file operation: the URL and the text it is given, and
\* what it came to.
Command(cmd, u, text, outcome) ==
    [cmd |-> cmd, url |-> u, text |-> text, outcome |-> outcome]

\* The step cmd of clone_subdirectory(repo_url, branch, subdirectory, _).
SparseCommand(cmd, repo_url, branch, subdirectory, outcome) ==
    CASE cmd = "remote_add" -> Command(cmd, repo_url, <<"origin">>, outcome)
      [] cmd = "write_rule" -> Command(cmd, MkUrl(<<>>), subdirectory \o <<Sep>>, outcome)
      [] cmd = "fetch" -> Command(cmd, MkUrl(<<>>), <<"origin">> \o branch, outcome)
      [] cmd = "checkout" -> Command(cmd, MkUrl(<<>>), <<"origin/">> \o branch, outcome)
      [] cmd = "verify" -> Command(cmd, MkUrl(<<>>), subdirectory, outcome)
      [] OTHER -> Command(cmd, MkUrl(<<>>), <<>>, outcome)

\* What a step can come to: a file operation succeeds or raises OSError, the
\* check finds the subdirectory or not, a git command exits with 0 or not,
\* runs into its timeout, or git is not installed.
StepOutcomes(cmd) ==
    IF cmd \in {"mkdir", "write_rule"} THEN {"ok", "oserror"}
    ELSE IF cmd = "verify" THEN {"ok", "absent"}
    ELSE {"ok", "nonzero", "timeout", "git_missing"}

StepFailsUncheckedFetch(cmd, outcome) == outcome # "ok" /\ cmd # "fetch"

\* if result.returncode != 0: return False; if not subdirectory_path.exists():
\* return False; except TimeoutExpired / except Exception: return False
StepFails(cmd, outcome) == outcome # "ok"

UseSparseOnBranch(p) == p.branch.present

\* if subdirectory:
UseSparse(p) == p.subdirectory.present /\ p.subdirectory.val # <<>>

(***************************************************************************)
(* The Scout store as the provisioning assets see it                       *)
(***************************************************************************)
collection_name == "SEbot Dagster Github Repos and Gists"
table_name == "GitHub Repositories and Files"
OtherName == "some other name"

NoEntry == [id |-> 0, name |-> ""]

FindByNameNever(xs, name) == NoEntry

\* for x in xs: if x.get("name") == name: existing = x; break
RECURSIVE FindByName(_, _)
FindByName(xs, name) ==
    IF xs = <<>> THEN NoEntry
    ELSE IF Head(xs).name = name THEN [id |-> Head(xs).id, name |-> name]
    ELSE FindByName(Tail(xs), name)

\* GET /v2/collections/{collection_id}/tables
get_tables(collection_id) ==
    LET In(t) == t.coll = collection_id IN SelectSeq(remoteTables, In)

CollectionExists(collection_id) ==
    \E k \in DOMAIN remoteCollections : remoteCollections[k].id = collection_id

DeleteKeepsTable(collection_id, tid) == remoteTables

\* DELETE /v2/collections/{collection_id}/tables/{table_id}
delete_table(collection_id, tid) ==
    LET Keep(t) == ~(t.coll = collection_id /\ t.id = tid)
    IN SelectSeq(remoteTables, Keep)

\* One HTTP request to Scout.
Call(api, coll, tbl, docs) == [api |-> api, coll |-> coll, table |-> tbl, docs |-> docs]

NoResult == [status |-> "none", id |-> 0]
NoReport == [scout_write |-> "not run"]

(***************************************************************************)
(* A run: the assets in dependency order                                   *)
(* scout_collection -> scout_table -> github_table_fill                    *)
(***************************************************************************)
RunReset ==
    /\ calls' = <<>>
    /\ writes' = <<>>
    /\ error' = "none"
    /\ collResult' = NoResult
    /\ tableResult' = NoResult
    /\ tables' = <<>>
    /\ existing_table' = 0
    /\ new_table_id' = 0
    /\ table_id' = 0
    /\ all_documents' = <<>>
    /\ repos_processed' = 0
    /\ gists_processed' = 0
    /\ i' = 1
    /\ j' = 1
    /\ documents' = <<>>
    /\ exc' = FALSE
    /\ attempted' = <<>>
    /\ outcomes' = <<>>
    /\ report' = NoReport

\* The Dagster instance and Scout keep what an ended run did: its requests to
\* the collection and table endpoints and the metadata the two setup assets
\* returned.  Nothing is kept before the first run.
Archive ==
    LET Setup(c) == c.api # "write_documents" IN
    IF runs = 0 THEN finished
    ELSE Append(finished, [requests |-> SelectSeq(calls, Setup),
                           collection |-> collResult,
                           table |-> tableResult,
                           error |-> error])

\* A run of all the assets is launched: scout_collection comes first.
StartRun ==
    /\ pc \in {"idle", "done", "failed"}
    /\ runs < MaxRuns
    /\ runs' = runs + 1
    /\ finished' = Archive
    /\ pc' = "collection"
    /\ RunReset
    /\ UNCHANGED <<libraryVars, configVars, storeVars, checkouts>>

\* A run of github_table_fill alone is launched.
StartFillRun ==
    /\ pc \in {"idle", "done", "failed"}
    /\ runs < MaxRuns
    /\ runs' = runs + 1
    /\ finished' = Archive
    /\ pc' = "fill"
    /\ RunReset
    /\ UNCHANGED <<libraryVars, configVars, storeVars, checkouts>>

AbandonDownstream(api) == "fill"

\* except Exception: log; raise.  The asset fails and Dagster runs none of
\* the assets that depend on it.
Raise(api) == "failed"

(***************************************************************************)
(* scout_collection                                                        *)
(***************************************************************************)
ScoutCollection ==
    /\ pc = "collection"
    /\ \E ok \in BOOLEAN :
          LET existing_collection == FindByName(remoteCollections, collection_name) IN
          /\ calls' = Append(calls, Call("get_collections", 0, 0, <<>>))
          /\ IF ~ok
             THEN /\ pc' = Raise("get_collections")
                  /\ error' = "get_collections"
                  /\ UNCHANGED collResult
             ELSE IF existing_collection.id # 0
             THEN /\ collResult' = [status |-> "existing", id |-> existing_collection.id]
                  /\ pc' = "table"
                  /\ UNCHANGED error
             ELSE /\ pc' = "create_collection"
                  /\ UNCHANGED <<error, collResult>>
    /\ UNCHANGED <<libraryVars, configVars, storeVars, fillVars, runs, finished, writes,
                   tableResult, tables, existing_table, new_table_id>>

CreateCollection ==
    /\ pc = "create_collection"
    /\ \E ok \in BOOLEAN :
          /\ calls' = Append(calls, Call("create_collection", 0, 0, <<>>))
          /\ IF ~ok
             THEN /\ pc' = Raise("create_collection")
                  /\ error' = "create_collection"
                  /\ UNCHANGED <<collResult, remoteCollections, nextId>>
             ELSE /\ remoteCollections' =
                        Append(remoteCollections, [id |-> nextId, name |-> collection_name])
                  /\ nextId' = nextId + 1
                  /\ collResult' = [status |-> "created", id |-> nextId]
                  /\ pc' = "table"
                  /\ UNCHANGED error
    /\ UNCHANGED <<libraryVars, configVars, remoteTables, tableMat, fillVars, runs, finished,
                   writes, tableResult, tables, existing_table, new_table_id>>

(***************************************************************************)
(* scout_table                                                             *)
(***************************************************************************)
TableBranchIgnoringForce(found, force) ==
    IF found THEN "delete_table" ELSE "create_table"

TableBranchDeleteOnForce(found, force) ==
    IF found /\ ~force THEN "existing"
    ELSE IF force THEN "delete_table"
    ELSE "create_table"

\* if existing_table and not force: use it; elif existing_table and force:
\* delete and create; else: create
TableBranch(found, force) ==
    IF found /\ ~force THEN "existing"
    ELSE IF found /\ force THEN "delete_table"
    ELSE "create_table"

\* return MaterializeResult(metadata={"table_id": ..., "status": ...}): the
\* instance records the materialization and github_table_fill may run.
TableReturns(status, tid) ==
    /\ tableResult' = [status |-> status, id |-> tid]
    /\ tableMat' = tid
    /\ pc' = "fill"

ScoutTable ==
    /\ pc = "table"
    /\ IF envCollectionId = 0
       THEN \* raise ValueError before any request
            /\ pc' = "failed"
            /\ error' = "ValueError"
            /\ UNCHANGED <<calls, tables, existing_table, tableResult, tableMat>>
       ELSE \E ok \in (IF CollectionExists(envCollectionId) THEN BOOLEAN ELSE {FALSE}) :
            LET found == FindByName(get_tables(envCollectionId), table_name)
                branch == TableBranch(found.id # 0, force_recreate_table)
            IN
            /\ calls' = Append(calls, Call("get_tables", envCollectionId, 0, <<>>))
            /\ IF ~ok
               THEN /\ pc' = Raise("get_tables")
                    /\ error' = "get_tables"
                    /\ UNCHANGED <<tables, existing_table, tableResult, tableMat>>
               ELSE /\ tables' = get_tables(envCollectionId)
                    /\ existing_table' = found.id
                    /\ UNCHANGED error
                    /\ IF branch = "existing"
                       THEN TableReturns("existing", found.id)
                       ELSE /\ pc' = branch
                            /\ UNCHANGED <<tableResult, tableMat>>
    /\ UNCHANGED <<libraryVars, configVars, remoteCollections, remoteTables, nextId,
                   fillVars, runs, finished, writes, collResult, new_table_id>>

DeleteTable ==
    /\ pc = "delete_table"
    /\ \E ok \in BOOLEAN :
          /\ calls' = Append(calls, Call("delete_table", envCollectionId, existing_table, <<>>))
          /\ IF ~ok
             THEN /\ pc' = Raise("delete_table")
                  /\ error' = "delete_table"
                  /\ UNCHANGED remoteTables
             ELSE /\ remoteTables' = delete_table(envCollectionId, existing_table)
                  /\ pc' = "create_table"
                  /\ UNCHANGED error
    /\ UNCHANGED <<libraryVars, configVars, remoteCollections, nextId, tableMat,
                   provisionVars, fillVars, runs, finished, writes>>

CreateTable ==
    /\ pc = "create_table"
    /\ \E ok \in BOOLEAN :
          /\ calls' = Append(calls, Call("create_table", envCollectionId, 0, <<>>))
          /\ IF ~ok
             THEN /\ pc' = Raise("create_table")
                  /\ error' = "create_table"
                  /\ UNCHANGED <<remoteTables, nextId, tableResult, tableMat, new_table_id>>
             ELSE /\ remoteTables' = Append(remoteTables,
                        [id |-> nextId, name |-> table_name, coll |-> envCollectionId])
                  /\ nextId' = nextId + 1
                  /\ UNCHANGED error
                  /\ IF existing_table # 0
                     THEN \* the recreate branch goes on to read the schema back
                          /\ pc' = "get_table_schema"
                          /\ new_table_id' = nextId
                          /\ UNCHANGED <<tableResult, tableMat>>
                     ELSE /\ TableReturns("created", nextId)
                          /\ UNCHANGED new_table_id
    /\ UNCHANGED <<libraryVars, configVars, remoteCollections, collResult, tables,
                   existing_table, fillVars, runs, finished, writes>>

GetTableSchema ==
    /\ pc = "get_table_schema"
    /\ \E ok \in BOOLEAN :
          /\ calls' = Append(calls, Call("get_table_schema", envCollectionId, new_table_id, <<>>))
          /\ IF ~ok
             THEN /\ pc' = Raise("get_table_schema")
                  /\ error' = "get_table_schema"
                  /\ UNCHANGED <<tableResult, tableMat>>
             ELSE /\ TableReturns("recreated", new_table_id)
                  /\ UNCHANGED error
    /\ UNCHANGED <<libraryVars, configVars, remoteCollections, remoteTables, nextId,
                   collResult, tables, existing_table, new_table_id, fillVars, runs, finished,
                   writes>>

(***************************************************************************)
(* GitHubResource: what one source's fetch returns                         *)
(***************************************************************************)
NoTag == "untagged"

\* repo_doc of get_repository_content
RepoDoc(owner, repo) ==
    [key |-> <<owner, "/", repo>>, type |-> "repository",
     category |-> NoTag, source |-> NoTag]

\* gist_doc of get_gist_content
GistDoc(gist_id) ==
    [key |-> <<"gist_", gist_id>>, type |-> "gist",
     category |-> NoTag, source |-> NoTag]

\* What the gist API call can come to: an HTTP or JSON error, a gist with no
\* file that has content, a gist with such a file.
GistResponses == {"error", "no_content", "files"}

\* The answer of GET https://api.github.com/gists/{gist_id}: the transport
\* and status (http), the body as JSON (json), and of a JSON object its
\* "owner" and "files" members (missing, null or an object) and the files.
Reply(http, json, owner, fileset, files) ==
    [http |-> http, json |-> json, owner |-> owner, fileset |-> fileset, files |-> files]

NoReply == Reply("none", "none", "none", "none", <<>>)

\* One value of gist_data["files"]: file_data is an object or null, its
\* "content" is missing, "" or text, its "language" missing, null or a name.
GistFile(data, text, language) == [data |-> data, content |-> text, language |-> language]

NotFetched == [raised |-> FALSE, documents |-> <<>>, returned |-> FALSE]

GistContentPerFile(gist_id, response) ==
    IF response = "files" THEN <<GistDoc(gist_id), GistDoc(gist_id)>> ELSE <<>>

\* get_gist_content: every exception is caught; the list has 0 or 1 document.
get_gist_content(gist_id, response) ==
    IF response = "files" THEN <<GistDoc(gist_id)>> ELSE <<>>

KeepOnException(dirs, d) == {x \in dirs : x # d \/ exc}

\* with tempfile.TemporaryDirectory() as temp_dir: leaving the block, by
\* return or by exception, removes the directory.
TemporaryDirectoryExit(dirs, d) == dirs \ {d}

\* file_data.get("content", "") on a null file_data, and
\* file_data.get("language", "").lower() on a null language of a file with
\* content, raise AttributeError.
FileRaises(f) == f.data = "null" \/ (f.content = "text" /\ f.language = "null")

\* The exception the try block of get_gist_content raises on a reply, "none"
\* when it runs to its end.
GistException(r) ==
    IF r.http = "network_error" THEN "ConnectionError"       \* session.get
    ELSE IF r.http = "http_error" THEN "HTTPError"           \* raise_for_status
    ELSE IF r.json = "malformed" THEN "JSONDecodeError"      \* response.json()
    ELSE IF r.json = "array" THEN "AttributeError"           \* gist_data.get
    ELSE IF r.owner = "null" THEN "AttributeError"           \* .get("owner", {}).get
    ELSE IF r.fileset = "null" THEN "AttributeError"         \* .get("files", {}).items
    ELSE IF \E k \in DOMAIN r.files : FileRaises(r.files[k]) THEN "AttributeError"
    ELSE "none"

\* files_processed: the files with non-empty content
files_processed(r) == Cardinality({k \in DOMAIN r.files : r.files[k].content = "text"})

GistOutcome(r) ==
    IF GistException(r) # "none" THEN "error"
    ELSE IF files_processed(r) > 0 THEN "files"
    ELSE "no_content"

GistCaughtRequestsOnly(e) == e \notin {"ConnectionError", "HTTPError"}

\* except Exception as e: log; the function goes on to "return documents".
GistPropagates(e) == FALSE

(***************************************************************************)
(* github_table_fill                                                       *)
(***************************************************************************)
PlaceholderIds == {"your_gist_id_here", "gist_id_placeholder"}

TagSourceOnly(docs, category) ==
    [k \in DOMAIN docs |-> [docs[k] EXCEPT !.source = "github_component"]]

RECURSIVE Tag(_, _)
\* for doc in documents: doc["category"] = category; doc["source"] = ...
Tag(docs, category) ==
    IF docs = <<>> THEN <<>>
    ELSE <<[Head(docs) EXCEPT !.category = category, !.source = "github_component"]>>
         \o Tag(Tail(docs), category)

ProcessedAlways(n, docs) == n + 1

\* if documents: ...; repos_processed += 1
Processed(n, docs) == IF docs # <<>> THEN n + 1 ELSE n

\* The table id is read from the latest github_scout_table materialization.
\* Every result scout_table returns carries a table_id (lines 131, 151, 156)
\* taken from Scout's list or create response, so of the three early returns
\* (lines 183-205) the run can take the first: no materialization recorded.
FillStart ==
    /\ pc = "fill"
    /\ IF tableMat = 0
       THEN /\ report' = [error |-> "missing_table_materialization"]
            /\ pc' = "done"
            /\ UNCHANGED table_id
       ELSE /\ table_id' = tableMat
            /\ pc' = "repositories"
            /\ UNCHANGED report
    /\ all_documents' = <<>>
    /\ repos_processed' = 0
    /\ gists_processed' = 0
    /\ i' = 1
    /\ j' = 1
    /\ UNCHANGED <<libraryVars, configVars, storeVars, provisionVars, runs, finished, calls,
                   writes, error, documents, exc, checkouts, attempted, outcomes>>

\* get_repository_content is entered for the next repository: the temporary
\* directory is made.
RepoBegin ==
    /\ pc = "repositories"
    /\ i <= Len(repositories)
    /\ attempted' = Append(attempted, <<"repository", i>>)
    /\ checkouts' = checkouts \cup {i}
    /\ documents' = <<>>
    /\ exc' = FALSE
    /\ pc' = "clone"
    /\ UNCHANGED <<libraryVars, configVars, storeVars, provisionVars, runs, finished, calls,
                   writes, error, table_id, all_documents, repos_processed,
                   gists_processed, i, j, outcomes, report>>

\* clone_repository: True, False (non-zero exit, timeout, git missing), or an
\* exception it does not catch (such as PermissionError from subprocess.run).
RepoClone ==
    /\ pc = "clone"
    /\ \E result \in {"cloned", "clone_failed", "raised"} :
          /\ pc' = IF result = "cloned" THEN "flatten" ELSE "exit"
          /\ exc' = (result = "raised")
          /\ outcomes' = IF result = "cloned" THEN outcomes ELSE Append(outcomes, result)
    /\ UNCHANGED <<libraryVars, configVars, storeVars, provisionVars, runs, finished, calls,
                   writes, error, table_id, all_documents, repos_processed,
                   gists_processed, i, j, documents, checkouts, attempted, report>>

\* flatten_repository_to_markdown: None or the markdown; then the document.
RepoFlatten ==
    /\ pc = "flatten"
    /\ \E flattened_content \in {"none", "markdown"} :
          /\ documents' = IF flattened_content = "markdown"
                          THEN <<RepoDoc(repositories[i].owner, repositories[i].repo)>>
                          ELSE <<>>
          /\ outcomes' = Append(outcomes,
                IF flattened_content = "markdown" THEN "document" ELSE "flatten_none")
    /\ pc' = "exit"
    /\ UNCHANGED <<libraryVars, configVars, storeVars, provisionVars, runs, finished, calls,
                   writes, error, table_id, all_documents, repos_processed,
                   gists_processed, i, j, exc, checkouts, attempted, report>>

AfterSourceStopOnError(raised) == IF raised THEN "write" ELSE "repositories"

AfterSourcePropagates(raised) == IF raised THEN "failed" ELSE "repositories"

\* try: ... except Exception: log.  The loop goes on to the next repository.
AfterSource(raised) == "repositories"

\* get_repository_content is left; github_table_fill takes what it returned.
RepoExit ==
    /\ pc = "exit"
    /\ checkouts' = TemporaryDirectoryExit(checkouts, i)
    /\ IF exc
       THEN UNCHANGED <<all_documents, repos_processed>>
       ELSE /\ all_documents' = all_documents \o Tag(documents, repositories[i].category)
            /\ repos_processed' = Processed(repos_processed, documents)
    /\ exc' = FALSE
    /\ documents' = <<>>
    /\ i' = i + 1
    /\ pc' = AfterSource(exc)
    /\ UNCHANGED <<libraryVars, configVars, storeVars, provisionVars, runs, finished, calls,
                   writes, error, table_id, gists_processed, j, attempted, outcomes,
                   report>>

ReposDone ==
    /\ pc = "repositories"
    /\ i > Len(repositories)
    /\ pc' = "gists"
    /\ UNCHANGED <<libraryVars, configVars, storeVars, provisionVars, fillVars, runs, finished,
                   calls, writes, error>>

\* if gist_config.id in [placeholders]: continue
GistSkip ==
    /\ pc = "gists"
    /\ j <= Len(gists)
    /\ gists[j] \in PlaceholderIds
    /\ j' = j + 1
    /\ UNCHANGED <<libraryVars, configVars, storeVars, provisionVars, runs, finished, pc, calls,
                   writes, error, table_id, all_documents, repos_processed,
                   gists_processed, i, documents, exc, checkouts, attempted, outcomes,
                   report>>

GistFetch ==
    /\ pc = "gists"
    /\ j <= Len(gists)
    /\ gists[j] \notin PlaceholderIds
    /\ \E response \in GistResponses :
          LET docs == get_gist_content(gists[j], response) IN
          /\ all_documents' = all_documents \o Tag(docs, "gist")
          /\ gists_processed' = Processed(gists_processed, docs)
          /\ outcomes' = Append(outcomes,
                IF response = "files" THEN "document"
                ELSE IF response = "error" THEN "gist_error" ELSE "gist_empty")
    /\ attempted' = Append(attempted, <<"gist", j>>)
    /\ j' = j + 1
    /\ UNCHANGED <<libraryVars, configVars, storeVars, provisionVars, runs, finished, pc, calls,
                   writes, error, table_id, repos_processed, i, documents, exc,
                   checkouts, report>>

GistsDone ==
    /\ pc = "gists"
    /\ j > Len(gists)
    /\ pc' = "write"
    /\ UNCHANGED <<libraryVars, configVars, storeVars, provisionVars, fillVars, runs, finished,
                   calls, writes, error>>

write_documents_unguarded(collection_id, tid, docs) ==
    <<Call("write_documents", collection_id, tid, docs)>>

\* ScoutosResource.write_documents: an empty list returns without a request.
write_documents(collection_id, tid, docs) ==
    IF docs = <<>> THEN <<>>
    ELSE <<Call("write_documents", collection_id, tid, docs)>>

ShouldWriteAlways(docs) == TRUE

\* if all_documents:
ShouldWrite(docs) == docs # <<>>

\* The batch write and the report, issued at step `at` of the run.
FillWriteAt(at) ==
    /\ pc = at
    /\ IF ShouldWrite(all_documents)
       THEN \E ok \in BOOLEAN :
            /\ writes' = Append(writes,
                  [coll |-> envCollectionId, table |-> table_id, docs |-> all_documents])
            /\ calls' = calls \o write_documents(envCollectionId, table_id, all_documents)
            /\ report' =
                  IF ok
                  THEN [total_documents |-> Len(all_documents),
                        repositories_processed |-> repos_processed,
                        gists_processed |-> gists_processed,
                        total_repos |-> Len(repositories),
                        total_gists |-> Len(gists),
                        scout_write |-> "success"]
                  ELSE [total_documents |-> Len(all_documents),
                        repositories_processed |-> repos_processed,
                        gists_processed |-> gists_processed,
                        scout_write |-> "failed",
                        error |-> "write_documents"]
       ELSE /\ report' = [total_documents |-> 0,
                          repositories_processed |-> repos_processed,
                          gists_processed |-> gists_processed,
                          scout_write |-> "skipped - no documents"]
            /\ UNCHANGED <<writes, calls>>
    /\ pc' = "done"
    /\ UNCHANGED <<libraryVars, configVars, storeVars, provisionVars, runs, finished, error,
                   table_id, all_documents, repos_processed, gists_processed, i, j,
                   documents, exc, checkouts, attempted, outcomes>>

FillWriteBeforeGists == FillWriteAt("gists")

\* The write comes after both loops (lines 249-293 follow the gist loop).
FillWrite == FillWriteAt("write")

(***************************************************************************)
(* GitHubResource.flatten_repository_to_markdown                           *)
(* An entry below repo_path is a record: the directories it lies in (dir), *)
(* its name, whether the name starts with "." (hidden), its Path.suffix,   *)
(* whether it is a regular file, its st_size, whether open() succeeds on   *)
(* it, and its text.  The markdown is a sequence of blocks.                *)
(***************************************************************************)
code_extensions ==
    {".py", ".sql", ".yaml", ".yml", ".toml", ".json", ".md", ".txt", ".sh", ".js",
     ".ts", ".css", ".html", ".r", ".R", ".ipynb"}

\* str.lower() on a suffix
Lower(suffix) ==
    IF suffix = ".R" THEN ".r" ELSE IF suffix = ".MD" THEN ".md" ELSE suffix

language_map ==
    [ext \in {".py", ".sql", ".yaml", ".yml", ".toml", ".json", ".sh", ".js", ".ts",
              ".css", ".html", ".r", ".R", ".ipynb"} |->
        CASE ext = ".py" -> "python"
          [] ext = ".sql" -> "sql"
          [] ext \in {".yaml", ".yml"} -> "yaml"
          [] ext = ".toml" -> "toml"
          [] ext \in {".json", ".ipynb"} -> "json"
          [] ext = ".sh" -> "bash"
          [] ext = ".js" -> "javascript"
          [] ext = ".ts" -> "typescript"
          [] ext = ".css" -> "css"
          [] ext = ".html" -> "html"
          [] ext \in {".r", ".R"} -> "r"]

\* language_map.get(ext, 'text')
Language(ext) == IF ext \in DOMAIN language_map THEN language_map[ext] ELSE "text"

readme_files == <<"README.md", "readme.md", "README.txt", "README">>

\* 1024 * 1024
MaxFileSize == 1024 * 1024

Block(kind, path, fence, text, at) ==
    [kind |-> kind, path |-> path, fence |-> fence, content |-> text, at |-> at]

\* The names of the entries in the order Python compares strings (by code
\* point: ".", then upper case, then lower case).
NameOrder ==
    <<".git", ".github", ".hidden.py", "NOTES.MD", "README", "README.md",
      "README.txt", "big.py", "ci.yml", "edge.sql", "locked.yaml", "logo.png",
      "main.py", "pkg.py", "readme.md", "src", "util.R", "x.sh">>

Rank(name) == CHOOSE k \in DOMAIN NameOrder : NameOrder[k] = name

\* file_path.parts below repo_path
Parts(e) == Append(e.dir, e.name)

\* Path.__lt__: the parts compared as tuples of strings
RECURSIVE PartsLess(_, _)
PartsLess(p, q) ==
    IF p = <<>> THEN q # <<>>
    ELSE IF q = <<>> THEN FALSE
    ELSE IF Head(p) # Head(q) THEN Rank(Head(p)) < Rank(Head(q))
    ELSE PartsLess(Tail(p), Tail(q))

RECURSIVE InsertSorted(_, _)
InsertSorted(e, s) ==
    IF s = <<>> THEN <<e>>
    ELSE IF PartsLess(Parts(e), Parts(Head(s))) THEN <<e>> \o s
    ELSE <<Head(s)>> \o InsertSorted(e, Tail(s))

Unsorted(listing) == listing

\* sorted(repo_path.rglob("*"))
RECURSIVE Sorted(_)
Sorted(listing) ==
    IF listing = <<>> THEN <<>>
    ELSE InsertSorted(Head(listing), Sorted(Tail(listing)))

\* file_path.is_file() and file_path.suffix.lower() in code_extensions
Allowed(e) == e.isfile /\ Lower(e.suffix) \in code_extensions

\* '.git' in file_path.parts or file_path.name.startswith('.')
Skipped(e) == (\E k \in DOMAIN e.dir : e.dir[k] = ".git") \/ e.name = ".git" \/ e.hidden

TooLargeInclusive(size) == size >= MaxFileSize

\* file_path.stat().st_size > 1024 * 1024
TooLarge(size) == size > MaxFileSize

\* "## File: {rel_path}", then the text, fenced unless the file is markdown
FileSection(e) ==
    Block("file", Parts(e),
          IF Lower(e.suffix) = ".md" THEN "none" ELSE Language(Lower(e.suffix)),
          e.content, 0)

\* The loop over the sorted entries: one section per file that is allowed,
\* not skipped, not too large and that open() can read.
RECURSIVE Sections(_)
Sections(entries) ==
    IF entries = <<>> THEN <<>>
    ELSE (IF /\ Allowed(Head(entries))
             /\ ~Skipped(Head(entries))
             /\ ~TooLarge(Head(entries).size)
             /\ Head(entries).readable
          THEN <<FileSection(Head(entries))>>
          ELSE <<>>)
         \o Sections(Tail(entries))

\* for readme_name in readme_files: the first one that exists and that open()
\* can read gives the "## README" section (a failed read goes on to the next).
RECURSIVE ReadmeSection(_, _)
ReadmeSection(entries, k) ==
    IF k > Len(readme_files) THEN <<>>
    ELSE LET found == {e \in entries : e.dir = <<>> /\ e.name = readme_files[k]
                                       /\ e.isfile /\ e.readable}
         IN IF found # {}
            THEN <<Block("readme", <<>>, "none", (CHOOSE e \in found : TRUE).content, 0)>>
            ELSE ReadmeSection(entries, k + 1)

\* "# {owner}/{repo}", "Repository: ...", "Flattened: {time.strftime(...)}"
Header(now) ==
    <<Block("title", <<>>, "none", "owner/repo", 0),
      Block("repository", <<>>, "none", "https://github.com/owner/repo", 0),
      Block("flattened", <<>>, "none", "timestamp", now)>>

\* git remote get-url origin, run when repo_path/.git exists: what it prints
\* is read from the checkout's .git/config.
GitRemote(g) ==
    IF g = "origin" THEN <<Block("git_remote", <<>>, "none", "remote_url", 0)>> ELSE <<>>

FlattenResultAlways(files, markdown) == Some(markdown)

\* if files_processed == 0: return None; else '\n'.join(markdown_content)
FlattenResult(files, markdown) == IF files = <<>> THEN None ELSE Some(markdown)

\* listing is the order in which rglob yields the entries of the tree.
flatten_repository_to_markdown(r, listing, g, now) ==
    IF r = "missing" \/ (listing = <<>> /\ g = "absent") THEN None
    ELSE IF r = "unlistable" THEN None      \* except Exception: return None
    ELSE LET files == Sections(Sorted(listing))
             entries == {listing[k] : k \in DOMAIN listing}
         IN FlattenResult(files,
                Header(now) \o GitRemote(g) \o ReadmeSection(entries, 1) \o files)

(***************************************************************************)
(* GitHubResource.extract_description_from_content                         *)
(* A line of the markdown is a record: what it is once stripped (kind),    *)
(* whether it starts with white space (indent), and the length of the      *)
(* stripped line (len).  Kinds: "readme_marker" is "## README",            *)
(* "file_marker" starts with "## File:", "header_named" starts with "#"    *)
(* and holds the owner's or the repository's name, "header" starts with    *)
(* "#", "bold" starts with "**", "blank" is empty, "text" is anything else.*)
(***************************************************************************)
NotExtracted == [returned |-> FALSE, fallback |-> FALSE, lines |-> <<>>, length |-> 0]

\* f"Repository {owner}/{repo} containing code and documentation files."
FallbackDescription == [returned |-> TRUE, fallback |-> TRUE, lines |-> <<>>, length |-> 0]

\* The first loop (lines 219-230): the stripped lines of the README section.
RECURSIVE readme_lines(_, _, _)
readme_lines(lines, in_readme, acc) ==
    IF lines = <<>> THEN acc
    ELSE LET line == Head(lines) IN
         IF line.kind = "readme_marker" THEN readme_lines(Tail(lines), TRUE, acc)
         ELSE IF line.kind = "file_marker" /\ ~line.indent /\ in_readme THEN acc
         ELSE IF in_readme /\ line.kind # "blank"
              THEN IF line.kind = "header_named" /\ ~line.indent
                   THEN readme_lines(Tail(lines), in_readme, acc)
                   ELSE readme_lines(Tail(lines), in_readme, Append(acc, line))
         ELSE readme_lines(Tail(lines), in_readme, acc)

\* len(' '.join(parts))
RECURSIVE JoinedLen(_)
JoinedLen(parts) ==
    IF parts = <<>> THEN 0
    ELSE IF Len(parts) = 1 THEN parts[1].len
    ELSE parts[1].len + 1 + JoinedLen(Tail(parts))

AllLines(lines) == lines

\* readme_lines[:10]
FirstLines(lines) == SubSeq(lines, 1, IF Len(lines) < 10 THEN Len(lines) ELSE 10)

\* The second loop (lines 235-240): a stripped line is taken unless it
\* starts with "#" or "**"; the loop stops once the joined text is longer
\* than 200 characters.
RECURSIVE description_parts(_, _)
description_parts(lines, parts) ==
    IF lines = <<>> THEN parts
    ELSE IF Head(lines).kind = "text"
         THEN IF JoinedLen(Append(parts, Head(lines))) > 200
              THEN Append(parts, Head(lines))
              ELSE description_parts(Tail(lines), Append(parts, Head(lines)))
         ELSE description_parts(Tail(lines), parts)

\* ' '.join(description_parts)[:500], or the fallback sentence
extract_description_from_content(lines) ==
    LET parts == description_parts(FirstLines(readme_lines(lines, FALSE, <<>>)), <<>>)
    IN IF parts # <<>>
       THEN [returned |-> TRUE, fallback |-> FALSE, lines |-> parts,
             length |-> IF JoinedLen(parts) > 500 THEN 500 ELSE JoinedLen(parts)]
       ELSE FallbackDescription

(***************************************************************************)
(* Initial states and specifications                                       *)
(***************************************************************************)
RepoConfigs ==
    {[owner |-> "dagster-io", repo |-> "hooli", category |-> "official"],
     [owner |-> "slopp", repo |-> "dagteam", category |-> "user_examples"]}

GistIds == {"74f96f", "your_gist_id_here"}

RepoLists == UNION {[1..n -> RepoConfigs] : n \in 0..MaxRepos}
GistLists == UNION {[1..n -> GistIds] : n \in 0..MaxGists}

Store(colls, tbls) ==
    [collections |-> colls, tables |-> tbls, nextId |-> Len(colls) + Len(tbls) + 1]

StoresWithCollection(cname) ==
    LET c == <<[id |-> 1, name |-> cname]>> IN
    {Store(c, <<>>),
     Store(c, <<[id |-> 2, name |-> table_name, coll |-> 1]>>),
     Store(c, <<[id |-> 2, name |-> OtherName, coll |-> 1]>>)}

InitialStores ==
    {Store(<<>>, <<>>)} \cup StoresWithCollection(collection_name)
                        \cup StoresWithCollection(OtherName)

RunIdle ==
    /\ runs = 0
    /\ finished = <<>>
    /\ pc = "idle"
    /\ calls = <<>>
    /\ writes = <<>>
    /\ error = "none"
    /\ collResult = NoResult
    /\ tableResult = NoResult
    /\ tables = <<>>
    /\ existing_table = 0
    /\ new_table_id = 0
    /\ table_id = 0
    /\ all_documents = <<>>
    /\ repos_processed = 0
    /\ gists_processed = 0
    /\ i = 1
    /\ j = 1
    /\ documents = <<>>
    /\ exc = FALSE
    /\ checkouts = {}
    /\ attempted = <<>>
    /\ outcomes = <<>>
    /\ report = NoReport

ResolverIdle ==
    /\ segs = <<>>
    /\ url = MalformedUrl
    /\ parsed = NotRun

StoreIs(st) ==
    /\ remoteCollections = st.collections
    /\ remoteTables = st.tables
    /\ nextId = st.nextId

FlattenIdle ==
    /\ root = "missing"
    /\ tree = {}
    /\ gitdir = "absent"
    /\ clock = 0
    /\ flat = <<>>

GistIdle ==
    /\ gistId = "none"
    /\ reply = NoReply
    /\ gistResult = NotFetched

ExtractIdle ==
    /\ content = <<>>
    /\ description = NotExtracted

CloneIdle ==
    /\ strategy = "none"
    /\ step = 0
    /\ commands = <<>>
    /\ cloneResult = "pending"

DownloadIdle ==
    /\ repoUrls = <<>>
    /\ disk = <<>>
    /\ results = <<>>
    /\ gitCalls = <<>>
    /\ phase = "idle"
    /\ completed = <<>>
    /\ downloads = 0

LibraryIdle ==
    ResolverIdle /\ FlattenIdle /\ GistIdle /\ ExtractIdle /\ CloneIdle /\ DownloadIdle

\* No run of the assets is under way and nothing is configured.
PipelineIdle ==
    /\ RunIdle
    /\ tableMat = 0
    /\ repositories = <<>>
    /\ gists = <<>>
    /\ force_recreate_table = FALSE
    /\ envCollectionId = 0
    /\ StoreIs(Store(<<>>, <<>>))

Provisioned ==
    Store(<<[id |-> 1, name |-> collection_name]>>,
          <<[id |-> 2, name |-> table_name, coll |-> 1]>>)

\* Ingestion: runs of github_table_fill over any configured source list,
\* against a provisioned store, with or without a recorded materialization
\* of github_scout_table.
Init ==
    /\ LibraryIdle
    /\ RunIdle
    /\ tableMat \in {0, 2}
    /\ repositories \in RepoLists
    /\ gists \in GistLists
    /\ force_recreate_table = FALSE
    /\ envCollectionId = 1
    /\ StoreIs(Provisioned)

\* Provisioning: runs of all the assets or of github_table_fill alone, from
\* any initial store, flag and environment, over a short source list.
ProvisionInit ==
    /\ LibraryIdle
    /\ RunIdle
    /\ tableMat = 0
    /\ repositories \in {s \in RepoLists : Len(s) = 1}
    /\ gists = <<"your_gist_id_here", "74f96f">>
    /\ force_recreate_table \in BOOLEAN
    /\ envCollectionId \in {0, 1}
    /\ \E st \in InitialStores : StoreIs(st)

FillNext ==
    \/ StartFillRun
    \/ FillStart
    \/ RepoBegin
    \/ RepoClone
    \/ RepoFlatten
    \/ RepoExit
    \/ ReposDone
    \/ GistSkip
    \/ GistFetch
    \/ GistsDone
    \/ FillWrite

Next ==
    \/ StartRun
    \/ ScoutCollection
    \/ CreateCollection
    \/ ScoutTable
    \/ DeleteTable
    \/ CreateTable
    \/ GetTableSchema
    \/ FillNext

Spec == Init /\ [][FillNext]_vars

SpecProvision == ProvisionInit /\ [][Next]_vars

\* One run of github_table_fill: a later run starts from the same locals.
FillLiveNext ==
    \/ runs = 0 /\ StartFillRun
    \/ FillStart
    \/ RepoBegin
    \/ RepoClone
    \/ RepoFlatten
    \/ RepoExit
    \/ ReposDone
    \/ GistSkip
    \/ GistFetch
    \/ GistsDone
    \/ FillWrite

\* The asset's code runs on once started: its loops are over finite lists,
\* every git subprocess has a timeout, and an HTTP call is taken to come back
\* with an answer or an error, so each enabled step of a run is eventually
\* taken.
SpecFillLive ==
    /\ Init
    /\ [][FillLiveNext]_vars
    /\ WF_vars(FillStart) /\ WF_vars(RepoBegin) /\ WF_vars(RepoClone)
    /\ WF_vars(RepoFlatten) /\ WF_vars(RepoExit) /\ WF_vars(ReposDone)
    /\ WF_vars(GistSkip) /\ WF_vars(GistFetch) /\ WF_vars(GistsDone)
    /\ WF_vars(FillWrite)

(***************************************************************************)
(* Inputs of the resolver                                                  *)
(***************************************************************************)
SegNames == {<<>>, <<"tree">>, <<"a">>, <<"b">>}
Slashes == {<<>>, <<Sep>>}

SegLists == UNION {[1..n -> SegNames] : n \in 0..MaxSegs}

ResolverInit ==
    /\ segs \in SegLists
    /\ \E lead \in Slashes, trail \in Slashes :
          url \in {MkUrl(lead \o Join(segs) \o trail), MalformedUrl}
    /\ parsed = NotRun
    /\ FlattenIdle /\ GistIdle /\ ExtractIdle /\ CloneIdle /\ DownloadIdle
    /\ PipelineIdle

\* One call of parse_github_url on the input.
Resolve ==
    /\ parsed = NotRun
    /\ parsed' = parse_github_url(url)
    /\ UNCHANGED <<segs, url, flattenVars, gistVars, extractVars, cloneVars,
                   downloadVars, pipelineVars>>

ResolverNext == Resolve

SpecResolver == ResolverInit /\ [][ResolverNext]_vars

(***************************************************************************)
(* Inputs of the flattener                                                 *)
(***************************************************************************)
File(dir, name, hidden, suffix, size, readable) ==
    [dir |-> dir, name |-> name, hidden |-> hidden, suffix |-> suffix,
     isfile |-> TRUE, size |-> size, readable |-> readable, content |-> name]

Directory(dir, name, suffix) ==
    [dir |-> dir, name |-> name, hidden |-> FALSE, suffix |-> suffix,
     isfile |-> FALSE, size |-> 4096, readable |-> FALSE, content |-> name]

Entries ==
    {File(<<>>, "README.md", FALSE, ".md", 120, TRUE),
     File(<<>>, "README.md", FALSE, ".md", 120, FALSE),
     File(<<>>, "readme.md", FALSE, ".md", 80, TRUE),
     File(<<>>, "README.txt", FALSE, ".txt", 80, TRUE),
     File(<<>>, "README", FALSE, "", 80, TRUE),
     File(<<>>, "main.py", FALSE, ".py", 300, TRUE),
     File(<<>>, "big.py", FALSE, ".py", MaxFileSize + 1, TRUE),
     File(<<>>, "edge.sql", FALSE, ".sql", MaxFileSize, TRUE),
     File(<<>>, ".hidden.py", TRUE, ".py", 10, TRUE),
     File(<<".git">>, "x.sh", FALSE, ".sh", 10, TRUE),
     File(<<>>, "logo.png", FALSE, ".png", 5000, TRUE),
     File(<<>>, "locked.yaml", FALSE, ".yaml", 10, FALSE),
     File(<<"src">>, "util.R", FALSE, ".R", 10, TRUE),
     File(<<"src">>, "NOTES.MD", FALSE, ".MD", 10, TRUE),
     File(<<".github">>, "ci.yml", FALSE, ".yml", 10, TRUE),
     Directory(<<>>, "pkg.py", ".py")}

\* Trees of at most MaxFiles entries, no two at the same path.
Trees ==
    {t \in SUBSET Entries :
        /\ Cardinality(t) <= MaxFiles
        /\ \A e1, e2 \in t : Parts(e1) = Parts(e2) => e1 = e2}

\* The orders in which rglob may yield the entries of a tree.
RECURSIVE Enumerations(_)
Enumerations(t) ==
    IF t = {} THEN {<<>>}
    ELSE UNION {{<<e>> \o rest : rest \in Enumerations(t \ {e})} : e \in t}

FlattenInit ==
    /\ ResolverIdle /\ GistIdle /\ ExtractIdle /\ CloneIdle /\ DownloadIdle
    /\ PipelineIdle
    /\ root \in {"dir", "missing", "unlistable"}
    /\ gitdir \in {"absent", "origin", "no_origin"}
    /\ tree \in Trees
    /\ root # "dir" => tree = {} /\ gitdir = "absent"
    /\ \A e \in tree : ".git" \in {e.dir[k] : k \in DOMAIN e.dir} => gitdir # "absent"
    /\ clock = 0
    /\ flat = <<>>

\* One call of flatten_repository_to_markdown on the directory, some time
\* (possibly none) after the call before it.
Flatten ==
    /\ Len(flat) < MaxFlattens
    /\ \E listing \in Enumerations(tree), tick \in {0, 1} :
          /\ clock' = clock + tick
          /\ flat' = Append(flat,
                flatten_repository_to_markdown(root, listing, gitdir, clock + tick))
    /\ UNCHANGED <<resolverVars, root, tree, gitdir, gistVars, extractVars, cloneVars, downloadVars,
                   pipelineVars>>

FlattenNext == Flatten

SpecFlatten == FlattenInit /\ [][FlattenNext]_vars

(***************************************************************************)
(* Inputs of the gist fetcher                                              *)
(***************************************************************************)
GistFiles ==
    {GistFile("null", "missing", "missing"),
     GistFile("object", "missing", "missing"),
     GistFile("object", "empty", "python"),
     GistFile("object", "text", "python"),
     GistFile("object", "text", "null"),
     GistFile("object", "text", "missing")}

GistReplies ==
    {Reply("network_error", "none", "none", "none", <<>>),
     Reply("http_error", "none", "none", "none", <<>>),
     Reply("ok", "malformed", "none", "none", <<>>),
     Reply("ok", "array", "none", "none", <<>>)}
    \cup {Reply("ok", "object", o, f, <<>>) :
             o \in {"missing", "null", "object"}, f \in {"missing", "null"}}
    \cup {Reply("ok", "object", o, "object", fs) :
             o \in {"missing", "null", "object"},
             fs \in UNION {[1..n -> GistFiles] : n \in 0..MaxGistFiles}}

GistInit ==
    /\ ResolverIdle /\ FlattenIdle /\ ExtractIdle /\ CloneIdle /\ DownloadIdle
    /\ PipelineIdle
    /\ gistId \in {"74f96f", "abc123"}
    /\ reply \in GistReplies
    /\ gistResult = NotFetched

\* One call of get_gist_content.
FetchGist ==
    /\ gistResult = NotFetched
    /\ gistResult' =
          IF GistException(reply) # "none" /\ GistPropagates(GistException(reply))
          THEN [raised |-> TRUE, documents |-> <<>>, returned |-> FALSE]
          ELSE [raised |-> FALSE,
                documents |-> get_gist_content(gistId, GistOutcome(reply)),
                returned |-> TRUE]
    /\ UNCHANGED <<resolverVars, flattenVars, gistId, reply, extractVars, cloneVars, downloadVars,
                   pipelineVars>>

GistNext == FetchGist

SpecGist == GistInit /\ [][GistNext]_vars

(***************************************************************************)
(* Inputs of the description extractor                                     *)
(***************************************************************************)
Line(kind, indent, len) == [kind |-> kind, indent |-> indent, len |-> len]

\* A stretch of the markdown: one line, or the same line ten times.
Stretches ==
    {<<Line("readme_marker", FALSE, 9)>>,
     <<Line("file_marker", FALSE, 15)>>,
     <<Line("file_marker", TRUE, 15)>>,
     <<Line("header_named", FALSE, 12)>>,
     <<Line("header_named", TRUE, 12)>>,
     <<Line("header", FALSE, 10)>>,
     <<Line("bold", FALSE, 20)>>,
     <<Line("blank", FALSE, 0)>>,
     <<Line("text", FALSE, 60)>>,
     <<Line("text", FALSE, 150)>>,
     <<Line("text", FALSE, 600)>>}
    \cup {[k \in 1..10 |-> l] :
             l \in {Line("header", FALSE, 10), Line("bold", FALSE, 20),
                    Line("text", FALSE, 60), Line("text", FALSE, 150)}}

RECURSIVE Concat(_)
Concat(ss) == IF ss = <<>> THEN <<>> ELSE Head(ss) \o Concat(Tail(ss))

ExtractInit ==
    /\ ResolverIdle /\ FlattenIdle /\ GistIdle /\ CloneIdle /\ DownloadIdle
    /\ PipelineIdle
    /\ \E ss \in UNION {[1..n -> Stretches] : n \in 0..MaxStretches} : content = Concat(ss)
    /\ description = NotExtracted

\* One call of extract_description_from_content.
Extract ==
    /\ description = NotExtracted
    /\ description' = extract_description_from_content(content)
    /\ UNCHANGED <<resolverVars, flattenVars, gistVars, content, cloneVars,
                   downloadVars, pipelineVars>>

ExtractNext == Extract

SpecExtract == ExtractInit /\ [][ExtractNext]_vars

(***************************************************************************)
(* GitHubDownloader.clone_repository, step by step                         *)
(***************************************************************************)
CloneSegLists ==
    LET a == <<"a">>
        b == <<"b">>
        t == <<"tree">>
    IN {<<>>, <<a>>, <<a, b>>, <<a, b, t>>, <<a, b, t, b>>, <<a, b, t, b, a>>,
        <<a, b, t, b, a, b>>, <<a, b, a, b, a>>, <<a, b, t, b, <<>>, a>>,
        <<a, t, t, t, t>>}

CloneInit ==
    /\ segs \in CloneSegLists
    /\ \E lead \in Slashes, trail \in Slashes :
          url \in {MkUrl(lead \o Join(segs) \o trail), MalformedUrl}
    /\ parsed = NotRun
    /\ FlattenIdle /\ GistIdle /\ ExtractIdle /\ CloneIdle /\ DownloadIdle
    /\ PipelineIdle

\* clone_repository is entered: the URL is parsed and the strategy chosen.
CloneStart ==
    /\ strategy = "none"
    /\ parsed' = parse_github_url(url)
    /\ strategy' = IF UseSparse(parsed') THEN "sparse" ELSE "full"
    /\ step' = IF UseSparse(parsed') THEN 1 ELSE 0
    /\ UNCHANGED <<segs, url, flattenVars, gistVars, extractVars, commands, cloneResult, downloadVars,
                   pipelineVars>>

\* git clone base_url target_dir; an exception other than TimeoutExpired,
\* CalledProcessError and FileNotFoundError leaves clone_repository.
FullClone ==
    /\ strategy = "full"
    /\ cloneResult = "pending"
    /\ \E outcome \in {"ok", "nonzero", "timeout", "git_missing", "oserror"} :
          /\ commands' = Append(commands, Command("clone", parsed.repoURL, <<>>, outcome))
          /\ cloneResult' = IF outcome = "ok" THEN "success"
                            ELSE IF outcome = "oserror" THEN "raised"
                            ELSE "failure"
    /\ UNCHANGED <<resolverVars, flattenVars, gistVars, extractVars, strategy, step, downloadVars,
                   pipelineVars>>

\* The next step of clone_subdirectory(base_url, branch, subdirectory, _).
SparseStep ==
    /\ strategy = "sparse"
    /\ cloneResult = "pending"
    /\ step <= Len(sparse_steps)
    /\ \E outcome \in StepOutcomes(sparse_steps[step]) :
          /\ commands' = Append(commands,
                SparseCommand(sparse_steps[step], parsed.repoURL, parsed.branch.val,
                              parsed.subdirectory.val, outcome))
          /\ IF StepFails(sparse_steps[step], outcome)
             THEN cloneResult' = "failure" /\ UNCHANGED step
             ELSE /\ step' = step + 1
                  /\ cloneResult' = IF step = Len(sparse_steps) THEN "success" ELSE "pending"
    /\ UNCHANGED <<resolverVars, flattenVars, gistVars, extractVars, strategy, downloadVars,
                   pipelineVars>>

CloneNext ==
    \/ CloneStart
    \/ FullClone
    \/ SparseStep

SpecClone == CloneInit /\ [][CloneNext]_vars

(***************************************************************************)
(* GitHubDownloader: destination directories, download_repositories, run   *)
(* A directory is a record: the category directories below output_dir      *)
(* (base) and the name of the folder in them.  What a directory holds is   *)
(* "missing", "empty", "partial" (what a fetch that failed left behind) or *)
(* "checkout" (what a fetch that succeeded wrote).                         *)
(***************************************************************************)
NoRepoInfo == [found |-> FALSE, owner |-> <<>>, repo |-> <<>>]

\* extract_repo_info: the first two path parts of the base URL, ".git" taken
\* out of the second; None when urlparse raises or the path has one part.
extract_repo_info(u) ==
    LET base_url == parse_github_url(u).repoURL
        NotGit(t) == t # ".git"
    IN IF ~base_url.ok THEN NoRepoInfo
       ELSE IF Len(PathParts(base_url)) >= 2
            THEN [found |-> TRUE,
                  owner |-> PathParts(base_url)[1],
                  repo  |-> SelectSeq(PathParts(base_url)[2], NotGit)]
            ELSE NoRepoInfo

\* The if / elif chain on owner and repo of get_target_directory.
base_dir(owner, repo) ==
    IF owner = <<"dagster-io">>
    THEN IF repo \in {<<"hooli-data-eng-pipelines">>, <<"dagster-open-platform">>,
                      <<"awesome-dagster">>}
         THEN <<"official_examples">>
         ELSE IF repo = <<"community-integrations">>
              THEN <<"community_integrations">>
              ELSE <<"official_examples">>
    ELSE IF owner = <<"cnolanminich">> THEN <<"user_examples", "cnolanminich">>
    ELSE IF owner = <<"slopp">> THEN <<"user_examples", "slopp">>
    ELSE <<"user_examples", "other">>

\* base_dir / subdirectory.split("/")[-1] for a subdirectory URL, else
\* base_dir / repo
get_target_directory(owner, repo, u) ==
    LET p == parse_github_url(u) IN
    IF p.subdirectory.present /\ p.subdirectory.val # <<>>
    THEN [base |-> base_dir(owner, repo),
          name |-> Split(p.subdirectory.val)[Len(Split(p.subdirectory.val))]]
    ELSE [base |-> base_dir(owner, repo), name |-> repo]

\* The destination of the source u, a URL extract_repo_info accepts.
TargetOf(u) ==
    get_target_directory(extract_repo_info(u).owner, extract_repo_info(u).repo, u)

AlreadyExistsOrEmpty(d) == d.content # "missing"

\* target_dir.exists() and any(target_dir.iterdir())
AlreadyExists(d) == d.content \in {"partial", "checkout"}

\* The commands clone_repository runs for u: those of clone_subdirectory, or
\* the one git clone.
FetchSteps(u) == IF UseSparse(parse_github_url(u)) THEN sparse_steps ELSE <<"clone">>

\* What a fetch can come to: every step succeeds (at = 0), or step `at` is
\* the first that fails, and how.  subprocess.run for git clone can also
\* raise an OSError that clone_repository has no handler for.
FetchOutcomes(u) ==
    {[at |-> 0, how |-> "ok"]}
    \cup UNION {{[at |-> n, how |-> h] :
                    h \in StepOutcomes(FetchSteps(u)[n]) \ {"ok"}} :
                 n \in DOMAIN FetchSteps(u)}
    \cup {[at |-> n, how |-> "oserror"] :
             n \in {m \in DOMAIN FetchSteps(u) : FetchSteps(u)[m] = "clone"}}

FetchRaises(u, o) == o.at # 0 /\ FetchSteps(u)[o.at] = "clone" /\ o.how = "oserror"

FetchSucceeds(u, o) ==
    \A n \in DOMAIN FetchSteps(u) :
        ~StepFails(FetchSteps(u)[n], IF n = o.at THEN o.how ELSE "ok")

\* What the destination holds after the fetch.  git clone removes what it
\* made when it fails, unless it is killed at the timeout; clone_subdirectory
\* makes the directory first (line 111), git init puts .git into it, and no
\* handler removes anything.
AfterFetch(d, u, o) ==
    LET cmd == IF o.at = 0 THEN "none" ELSE FetchSteps(u)[o.at] IN
    IF o.at = 0 THEN "checkout"
    ELSE IF cmd = "clone" THEN (IF o.how = "timeout" THEN "partial" ELSE d.content)
    ELSE IF cmd = "mkdir" THEN d.content
    ELSE IF cmd = "init" /\ o.how # "timeout" THEN "empty"
    ELSE "partial"

\* run() is called (by main): download_repositories is entered.
RunStart ==
    /\ phase \in {"idle", "exit_0", "exit_1"}
    /\ downloads < MaxDownloads
    /\ downloads' = downloads + 1
    /\ phase' = "repositories"
    /\ results' = <<>>
    /\ gitCalls' = <<>>
    /\ completed' = <<>>
    /\ UNCHANGED <<resolverVars, flattenVars, gistVars, extractVars, cloneVars,
                   repoUrls, disk, pipelineVars>>

\* One pass of download_repositories' loop.
DownloadRepository ==
    /\ phase = "repositories"
    /\ Len(results) < Len(repoUrls)
    /\ LET k == Len(results) + 1
           repo_url == repoUrls[k]
           repo_info == extract_repo_info(repo_url)
           target_dir == TargetOf(repo_url)
       IN IF ~repo_info.found
          THEN /\ results' = Append(results, FALSE)
               /\ UNCHANGED <<disk, gitCalls, phase>>
          ELSE IF AlreadyExists(disk[target_dir])
          THEN /\ results' = Append(results, TRUE)
               /\ UNCHANGED <<disk, gitCalls, phase>>
          ELSE \E o \in FetchOutcomes(repo_url) :
               LET after == AfterFetch(disk[target_dir], repo_url, o) IN
               /\ gitCalls' = Append(gitCalls, k)
               /\ disk' = [disk EXCEPT ![target_dir] =
                              IF after = @.content THEN @
                              ELSE [content |-> after, by |-> k]]
               /\ IF FetchRaises(repo_url, o)
                  THEN phase' = "exit_1" /\ UNCHANGED results
                  ELSE /\ results' = Append(results, FetchSucceeds(repo_url, o))
                       /\ UNCHANGED phase
    /\ UNCHANGED <<resolverVars, flattenVars, gistVars, extractVars, cloneVars,
                   repoUrls, completed, downloads, pipelineVars>>

\* A phase of run() returns, or raises: run() has no handler, main's
\* "except Exception" prints the error and calls sys.exit(1).
PhaseEnds(name, next, ok) ==
    /\ IF ok
       THEN phase' = next /\ completed' = Append(completed, name)
       ELSE phase' = "exit_1" /\ UNCHANGED completed
    /\ UNCHANGED <<resolverVars, flattenVars, gistVars, extractVars, cloneVars,
                   repoUrls, disk, results, gitCalls, downloads, pipelineVars>>

RepositoriesDone ==
    /\ phase = "repositories"
    /\ Len(results) = Len(repoUrls)
    /\ PhaseEnds("download_repositories", "gists", TRUE)

\* download_gists: download_gist catches every Exception.
DownloadGists ==
    /\ phase = "gists"
    /\ PhaseEnds("download_gists", "flatten", TRUE)

\* flatten_all_repositories: mkdir and iterdir can raise OSError.
FlattenAll ==
    /\ phase = "flatten"
    /\ \E ok \in BOOLEAN : PhaseEnds("flatten_all_repositories", "report", ok)

\* generate_report: open(report_path, 'w') can raise OSError.
GenerateReport ==
    /\ phase = "report"
    /\ \E ok \in BOOLEAN : PhaseEnds("generate_report", "summary", ok)

\* The names run() has bound when it reaches its last statement, and the
\* names that statement's f-string reads (line 761).
RunLocals == {"self", "repo_results", "gist_results", "flatten_results"}
SummaryNames == {"repo_results", "gist_results", "gistResults", "flattenResults"}

\* The two prints that end run(): a name that is neither a local nor a
\* global of the module raises NameError.
Summary ==
    /\ phase = "summary"
    /\ phase' = IF SummaryNames \subseteq RunLocals THEN "exit_0" ELSE "exit_1"
    /\ UNCHANGED <<resolverVars, flattenVars, gistVars, extractVars, cloneVars,
                   repoUrls, disk, results, gitCalls, completed, downloads, pipelineVars>>

SourceUrls ==
    {MkUrl(<<Sep, "dagster-io", Sep, "hooli-data-eng-pipelines">>),
     MkUrl(<<Sep, "alice", Sep, "demo">>),
     MkUrl(<<Sep, "bob", Sep, "demo", Sep>>),
     MkUrl(<<Sep, "dagster-io", Sep, "dagster", Sep, "tree", Sep, "master", Sep,
             "examples", Sep, "demo">>),
     MkUrl(<<Sep, "a">>)}

SourceLists == UNION {[1..n -> SourceUrls] : n \in 0..MaxSources}

Destinations(urls) ==
    {TargetOf(urls[k]) : k \in {n \in DOMAIN urls : extract_repo_info(urls[n]).found}}

\* A new output directory: setup_directories has made the category
\* directories and no destination exists yet.
DownloadInit ==
    /\ repoUrls \in SourceLists
    /\ disk = [d \in Destinations(repoUrls) |-> [content |-> "missing", by |-> 0]]
    /\ results = <<>>
    /\ gitCalls = <<>>
    /\ phase = "idle"
    /\ completed = <<>>
    /\ downloads = 0
    /\ ResolverIdle /\ FlattenIdle /\ GistIdle /\ ExtractIdle /\ CloneIdle
    /\ PipelineIdle

DownloadNext ==
    \/ RunStart
    \/ DownloadRepository
    \/ RepositoriesDone
    \/ DownloadGists
    \/ FlattenAll
    \/ GenerateReport
    \/ Summary

SpecDownload == DownloadInit /\ [][DownloadNext]_vars

(***************************************************************************)
(* Claims about the URL resolver (checked under SpecResolver)              *)
(***************************************************************************)
Resolved == parsed # NotRun

AllNamed(ss) == \A k \in DOMAIN ss : ss[k] # <<>>

\* The written segments without their empty leading and trailing ones.
RECURSIVE DropEmptyFront(_)
DropEmptyFront(ss) ==
    IF ss # <<>> /\ Head(ss) = <<>> THEN DropEmptyFront(Tail(ss)) ELSE ss

RECURSIVE DropEmptyBack(_)
DropEmptyBack(ss) ==
    IF ss # <<>> /\ ss[Len(ss)] = <<>>
    THEN DropEmptyBack(SubSeq(ss, 1, Len(ss) - 1)) ELSE ss

Core == DropEmptyBack(DropEmptyFront(segs))

TreeWritten == url.ok /\ Len(Core) >= 4 /\ Core[3] = <<"tree">>

\* C1: a URL written as owner/repo/tree/branch/a/b/c (third segment "tree",
\* at least one segment after the branch) parses to the repository URL
\* https://github.com/{owner}/{repo}.git, the fourth segment as branch and
\* the remaining segments joined by "/" as subdirectory.
C1_TreeUrlWithPath ==
    (Resolved /\ url.ok /\ AllNamed(segs) /\ Len(segs) >= 5 /\ segs[3] = <<"tree">>)
    => /\ ~parsed.raised
       /\ parsed.repoURL = BaseUrl(segs[1], segs[2])
       /\ parsed.branch = Some(segs[4])
       /\ parsed.subdirectory = Some(Join(SubSeq(segs, 5, Len(segs))))

C1_Witness ==
    /\ Resolved /\ url.ok
    /\ segs = << <<"a">>, <<"b">>, <<"tree">>, <<"b">>, <<"a">>, <<"b">>, <<"a">> >>
    /\ parsed.subdirectory = Some(<<"a", Sep, "b", Sep, "a">>)

\* C2 as written: owner/repo/tree/branch parses to that branch and to a
\* subdirectory that is present and empty, unlike the None of a plain URL.
C2_EmptySubdirectoryPresent ==
    (Resolved /\ url.ok /\ AllNamed(segs) /\ Len(segs) = 4 /\ segs[3] = <<"tree">>)
    => /\ parsed.branch = Some(segs[4])
       /\ parsed.subdirectory = Some(<<>>)
       /\ parsed.subdirectory # None

\* C2 (amended): owner/repo/tree/branch parses to the canonical repository
\* URL and that branch, and its subdirectory is None, the same absent value
\* a plain repository URL gets; only the branch tells the two apart.
C2_BranchOnlyHasNoSubdirectory ==
    /\ (Resolved /\ url.ok /\ AllNamed(segs) /\ Len(segs) = 4 /\ segs[3] = <<"tree">>)
       => /\ parsed.repoURL = BaseUrl(segs[1], segs[2])
          /\ parsed.branch = Some(segs[4])
          /\ parsed.subdirectory = None
    /\ (Resolved /\ url.ok /\ AllNamed(segs) /\ Len(segs) = 2)
       => parsed.branch = None /\ parsed.subdirectory = None

C2_Witness ==
    /\ Resolved /\ url.ok
    /\ segs = << <<"a">>, <<"b">>, <<"tree">>, <<"b">> >>
    /\ parsed.branch = Some(<<"b">>)
    /\ parsed.subdirectory = None

\* C3: a URL whose path has fewer than 2 segments parses to (url, None,
\* None); every input yields a result without raising, and every URL that
\* is not of the tree form yields (url, None, None).
C3_FallbackNeverRaises ==
    Resolved =>
       /\ ~parsed.raised
       /\ (Len(Core) < 2 => parsed = Fallback(url))
       /\ (~TreeWritten => parsed = Fallback(url))

C3_Witness ==
    /\ Resolved
    /\ \/ url = MalformedUrl
       \/ segs = << <<"a">> >>
    /\ parsed = Fallback(url)

(***************************************************************************)
(* Claims about github_table_fill (checked under Spec)                     *)
(***************************************************************************)
\* The run passed the table-id checks and entered the source loops.
HasHandle == table_id # 0

FillDone == pc = "done" /\ HasHandle

IsRealGist(src) == gists[src[2]] \notin PlaceholderIds

\* Every repository, then every gist that is no placeholder, by position.
ExpectedAttempts ==
    [k \in 1..Len(repositories) |-> <<"repository", k>>]
    \o SelectSeq([k \in 1..Len(gists) |-> <<"gist", k>>], IsRealGist)

\* The tagged document a source yields when its fetch yields one.
ExpectedDoc(src) ==
    IF src[1] = "repository"
    THEN [key |-> <<repositories[src[2]].owner, "/", repositories[src[2]].repo>>,
          type |-> "repository",
          category |-> repositories[src[2]].category,
          source |-> "github_component"]
    ELSE [key |-> <<"gist_", gists[src[2]]>>,
          type |-> "gist",
          category |-> "gist",
          source |-> "github_component"]

RECURSIVE SurvivorDocs(_)
SurvivorDocs(n) ==
    IF n = 0 THEN <<>>
    ELSE SurvivorDocs(n - 1)
         \o (IF outcomes[n] = "document" THEN <<ExpectedDoc(attempted[n])>> ELSE <<>>)

FetchFailures == {"clone_failed", "raised", "gist_error"}

Produced(kind) ==
    Cardinality({k \in DOMAIN outcomes :
                    outcomes[k] = "document" /\ attempted[k][1] = kind})

NumFetchFailed == Cardinality({k \in DOMAIN outcomes : outcomes[k] \in FetchFailures})

SomeFetchFailed == NumFetchFailed > 0

WriteRequests == LET IsWrite(c) == c.api = "write_documents" IN SelectSeq(calls, IsWrite)

\* C4 as written: when some sources fail to fetch, the batch holds exactly
\* the survivors' documents, exactly one batch write call is made, and the
\* report states processed = sources that succeeded and failed = sources
\* that failed (read off the report's totals).
C4_OneWriteAndFailedCount ==
    (FillDone /\ SomeFetchFailed) =>
       /\ Len(writes) = 1
       /\ writes[1].docs = SurvivorDocs(Len(outcomes))
       /\ report.repositories_processed + report.gists_processed
             = Produced("repository") + Produced("gist")
       /\ "total_repos" \in DOMAIN report
       /\ (report.total_repos + report.total_gists)
             - (report.repositories_processed + report.gists_processed)
             = NumFetchFailed

\* C4 (amended): when some sources fail to fetch, the collected list holds
\* exactly the tagged documents of the sources that produced one, in
\* configuration order; write_documents is called exactly once, with that
\* list, when it is not empty and not at all when it is empty; the report
\* states repositories_processed and gists_processed, the numbers of
\* repositories and gists that produced a document, and no failed count.
C4_SurvivorsBatchedAndCounted ==
    (FillDone /\ SomeFetchFailed) =>
       /\ all_documents = SurvivorDocs(Len(outcomes))
       /\ IF all_documents = <<>>
          THEN writes = <<>> /\ WriteRequests = <<>>
          ELSE /\ Len(writes) = 1
               /\ writes[1].docs = all_documents
               /\ Len(WriteRequests) = 1
               /\ WriteRequests[1].docs = all_documents
       /\ report.repositories_processed = Produced("repository")
       /\ report.gists_processed = Produced("gist")
       /\ report.total_documents = Produced("repository") + Produced("gist")
       /\ "failed" \notin DOMAIN report

\* Two repositories and one gist, the first repository's clone failing.
C4_Witness ==
    /\ FillDone
    /\ Len(repositories) = 2
    /\ Len(gists) = 1
    /\ outcomes = <<"clone_failed", "document", "document">>
    /\ Len(writes) = 1
    /\ Len(writes[1].docs) = 2
    /\ report.repositories_processed = 1
    /\ report.gists_processed = 1

\* C5: in a run that enters the source loops, every configured repository
\* and then every configured gist that is no placeholder is attempted
\* exactly once, in configuration order, whatever happened to the sources
\* before it (a fetch failure or an exception included).
C5_EverySourceAttemptedInOrder ==
    HasHandle =>
       /\ Len(attempted) <= Len(ExpectedAttempts)
       /\ attempted = SubSeq(ExpectedAttempts, 1, Len(attempted))
       /\ (pc \in {"write", "done"} => attempted = ExpectedAttempts)

C5_Witness ==
    /\ FillDone
    /\ Len(attempted) = 3
    /\ outcomes[1] = "raised"
    /\ outcomes[2] = "clone_failed"
    /\ attempted[3] = <<"gist", 2>>

\* C6: write_documents is called at most once in a run, and only after
\* every repository and every gist has been attempted: no write is issued
\* between sources.
C6_SingleWriteAfterAllSources ==
    /\ Len(writes) <= 1
    /\ Len(WriteRequests) <= 1
    /\ (writes # <<>> =>
          /\ pc = "done"
          /\ i > Len(repositories)
          /\ j > Len(gists)
          /\ attempted = ExpectedAttempts)

C6_Witness ==
    /\ Len(writes) = 1
    /\ Len(attempted) = 4
    /\ pc = "done"

CountKeys == {"total_documents", "documents_processed", "repositories_processed",
              "gists_processed"}

\* C7: with no repository and no gist configured, the run issues no write
\* call, every count its report carries is zero, and a run that entered the
\* (empty) loops reports documents, repositories processed and gists
\* processed, all zero.
C7_EmptySourceListWritesNothing ==
    (pc = "done" /\ repositories = <<>> /\ gists = <<>>) =>
       /\ writes = <<>>
       /\ WriteRequests = <<>>
       /\ \A k \in DOMAIN report \cap CountKeys : report[k] = 0
       /\ HasHandle =>
             /\ report.total_documents = 0
             /\ report.repositories_processed = 0
             /\ report.gists_processed = 0

C7_Witness ==
    /\ FillDone
    /\ repositories = <<>>
    /\ gists = <<>>
    /\ report.scout_write = "skipped - no documents"

\* C10: the checkout directory get_repository_content makes exists only
\* while that call runs; after it exits (clone failure, flatten yielding
\* none, a document produced, or an exception) no checkout is left, and
\* none is held from one source to the next.
C10_CheckoutRemovedOnExit ==
    IF pc \in {"clone", "flatten", "exit"}
    THEN checkouts = {i}
    ELSE checkouts = {}

C10_Witness ==
    /\ pc = "gists"
    /\ outcomes = <<"raised", "flatten_none">>
    /\ checkouts = {}

\* The key a document of the batch must carry, by its type.
KeyWellFormed(doc) ==
    IF doc.type = "repository"
    THEN \E k \in DOMAIN repositories :
            doc.key = <<repositories[k].owner, "/", repositories[k].repo>>
    ELSE \E k \in DOMAIN gists : doc.key = <<"gist_", gists[k]>>

\* C11: every document handed to write_documents has the key
\* "{owner}/{repo}" (repository) or "gist_{id}" (gist) of a configured
\* source, and no two documents of the list share a key, for any configured
\* source list.
C11_KeysUniqueInBatch ==
    \A w \in DOMAIN writes :
       /\ \A k \in DOMAIN writes[w].docs : KeyWellFormed(writes[w].docs[k])
       /\ \A k1, k2 \in DOMAIN writes[w].docs :
             k1 # k2 => writes[w].docs[k1].key # writes[w].docs[k2].key

WriteStatuses == {"success", "failed", "skipped - no documents"}

\* C19: given a table handle, a run of github_table_fill over any source
\* list never raises and terminates with a report that carries the numbers
\* of repositories and gists processed, the number of documents and the
\* write status, whatever the fetches and the batch write came to (a
\* failure or an exception of some or of all sources, a failed write).
C19_FillTerminatesWithReport ==
    /\ [](HasHandle => (pc # "failed" /\ error = "none"))
    /\ [](FillDone =>
             /\ {"total_documents", "repositories_processed", "gists_processed",
                  "scout_write"} \subseteq DOMAIN report
             /\ report.scout_write \in WriteStatuses
             /\ report.scout_write = "failed" => Len(writes) = 1
             /\ report.repositories_processed <= Len(repositories)
             /\ report.gists_processed <= Len(gists)
             /\ report.total_documents = Len(all_documents))
    /\ ((pc = "repositories" /\ HasHandle) ~> FillDone)

\* One source raises, one fetch fails and the write of the one document
\* that is left fails as well.
C19_Witness ==
    /\ FillDone
    /\ outcomes = <<"raised", "document", "gist_error">>
    /\ report.scout_write = "failed"
    /\ report.total_documents = 1

(***************************************************************************)
(* Claims about provisioning (checked under SpecProvision)                 *)
(***************************************************************************)
TableApis == {"get_tables", "delete_table", "create_table", "get_table_schema"}

ProvisionApis == {"get_collections", "create_collection"} \cup TableApis

TableCalls == LET IsTable(c) == c.api \in TableApis IN SelectSeq(calls, IsTable)

CallsOf(api) == LET Is(c) == c.api = api IN SelectSeq(calls, Is)

\* The list get_tables returned holds a table of the configured name.
TableNameListed == \E k \in DOMAIN tables : tables[k].name = table_name

\* C8: with force_recreate_table false and a table of exactly the configured
\* name in the collection, scout_table issues only the list-tables read (no
\* create_table, delete_table or get_table_schema) and returns that table's
\* id with status "existing".
C8_ExistingTableOnlyRead ==
    (~force_recreate_table /\ TableNameListed) =>
       /\ TableCalls = <<Call("get_tables", envCollectionId, 0, <<>>)>>
       /\ tableResult.status = "existing"
       /\ \E k \in DOMAIN tables :
             tables[k].name = table_name /\ tables[k].id = tableResult.id
       /\ tableMat = tableResult.id
       /\ get_tables(envCollectionId) = tables

C8_Witness ==
    /\ ~force_recreate_table
    /\ TableNameListed
    /\ tableResult = [status |-> "existing", id |-> 2]
    /\ pc = "fill"

\* C9: when a remote call of scout_collection or scout_table fails, the
\* failure ends the run there: the failed call is the last request of the
\* run and was sent once, no asset downstream runs, and no document write
\* is issued in that run.
C9_ProvisionFailureIsFatal ==
    (error \in ProvisionApis) =>
       /\ pc = "failed"
       /\ calls # <<>>
       /\ calls[Len(calls)].api = error
       /\ Len(CallsOf(error)) = 1
       /\ writes = <<>>
       /\ WriteRequests = <<>>
       /\ report = NoReport

C9_Witness ==
    /\ error = "create_table"
    /\ Len(calls) = 4
    /\ calls[3].api = "delete_table"
    /\ pc = "failed"

\* The table scout_table created in this run: the last one of the store.
CreatedTable == remoteTables[Len(remoteTables)]

\* C20: scout_table issues delete_table only when a table of the configured
\* name is listed and force_recreate_table is true; the delete is of that
\* table and comes before the create; the handle then returned is the id of
\* the table just created, with status "recreated"; when no table of the
\* name is listed, one create is issued and no delete, with status
\* "created", whatever force_recreate_table is.
C20_DeleteOnlyOnForcedRecreate ==
    /\ CallsOf("delete_table") # <<>> =>
          /\ force_recreate_table
          /\ TableNameListed
          /\ Len(CallsOf("delete_table")) = 1
          /\ \E k \in DOMAIN tables :
                /\ tables[k].name = table_name
                /\ tables[k].id = CallsOf("delete_table")[1].table
    /\ \A d, c \in DOMAIN calls :
          (calls[d].api = "delete_table" /\ calls[c].api = "create_table") => d < c
    /\ (tableResult.status # "none" /\ TableNameListed /\ force_recreate_table) =>
          /\ tableResult.status = "recreated"
          /\ Len(CallsOf("delete_table")) = 1
          /\ Len(CallsOf("create_table")) = 1
          /\ CreatedTable.name = table_name
          /\ tableResult.id = CreatedTable.id
          /\ \A k \in DOMAIN tables : tables[k].id # tableResult.id
          /\ tableMat = tableResult.id
    /\ (tableResult.status # "none" /\ ~TableNameListed) =>
          /\ tableResult.status = "created"
          /\ CallsOf("delete_table") = <<>>
          /\ Len(CallsOf("create_table")) = 1
          /\ CreatedTable.name = table_name
          /\ tableResult.id = CreatedTable.id
          /\ tableMat = tableResult.id

C20_Witness ==
    /\ force_recreate_table
    /\ tableResult = [status |-> "recreated", id |-> 3]
    /\ Len(calls) = 5
    /\ calls[3].api = "delete_table"
    /\ calls[3].table = 2
    /\ calls[4].api = "create_table"

(***************************************************************************)
(* Claims about the flattener (checked under SpecFlatten)                  *)
(***************************************************************************)
ReadmeNames == {readme_files[k] : k \in DOMAIN readme_files}

IsReadme(e) == e.dir = <<>> /\ e.name \in ReadmeNames /\ e.isfile

\* The tree holds a README and, the README apart, no allow-listed file.
ReadmeOnly ==
    /\ root = "dir"
    /\ \E e \in tree : IsReadme(e)
    /\ \A e \in tree : IsReadme(e) \/ ~Allowed(e)

FileSections(result) ==
    LET IsFile(b) == b.kind = "file" IN SelectSeq(result.val, IsFile)

HasBlock(result, kind) == \E k \in DOMAIN result.val : result.val[k].kind = kind

\* C12 as written: flattening a directory that holds only a README (any of
\* README.md, readme.md, README.txt, README) and no other allow-listed file
\* yields none.
C12_ReadmeOnlyYieldsNone ==
    ReadmeOnly => \A k \in DOMAIN flat : flat[k] = None

\* C12 (amended): the "## README" section does not count as an emitted file:
\* whenever no file of the tree is emitted as a "## File:" section the result
\* is none, and so a directory holding only the extension-less README yields
\* none; README.md, readme.md and README.txt carry an allow-listed extension
\* and are emitted as files themselves, so a directory holding only one of
\* them (readable, at most 1 MiB) yields a document with the README section
\* and one "## File:" section, that of the README.
C12_BareReadmeOnlyYieldsNone ==
    \A k \in DOMAIN flat :
       /\ (root = "dir" /\ \A e \in tree : e.name = "README" \/ ~Allowed(e))
             => flat[k] = None
       /\ flat[k].present => FileSections(flat[k]) # <<>>
       /\ (ReadmeOnly /\ Cardinality(tree) = 1
              /\ \E e \in tree : e.name # "README" /\ e.readable)
             => /\ flat[k].present
                /\ HasBlock(flat[k], "readme")
                /\ Len(FileSections(flat[k])) = 1
                /\ \E e \in tree : FileSections(flat[k])[1].path = <<e.name>>

C12_Witness ==
    /\ Len(flat) = 1
    /\ \E e \in tree : e.name = "README"
    /\ \E e \in tree : e.name = "logo.png"
    /\ Cardinality(tree) = 2
    /\ flat[1] = None

EntryAt(path) == CHOOSE e \in tree : Parts(e) = path

\* C13: no "## File:" section exists for a file larger than 1 MiB
\* (1,048,576 bytes), for a file whose name begins with ".", or for a file
\* with ".git" among its path components, whatever its extension; a readable
\* file of exactly 1 MiB with an allow-listed extension (not hidden, not
\* under .git) has its section.
C13_LargeAndHiddenFilesExcluded ==
    \A k \in DOMAIN flat :
       /\ \A n \in DOMAIN FileSections(flat[k]) :
             LET path == FileSections(flat[k])[n].path IN
             /\ \E e \in tree : Parts(e) = path
             /\ EntryAt(path).size <= 1048576
             /\ ~EntryAt(path).hidden
             /\ \A c \in DOMAIN path : path[c] # ".git"
       /\ \A e \in tree :
             (root = "dir" /\ e.isfile /\ e.size = 1048576 /\ e.readable /\ ~e.hidden
                 /\ Lower(e.suffix) \in code_extensions
                 /\ \A c \in DOMAIN e.dir : e.dir[c] # ".git")
             => /\ flat[k].present
                /\ \E n \in DOMAIN FileSections(flat[k]) :
                      FileSections(flat[k])[n].path = Parts(e)

C13_Witness ==
    /\ Len(flat) = 1
    /\ {e.name : e \in tree} = {"big.py", "edge.sql", ".hidden.py"}
    /\ flat[1].present
    /\ Len(FileSections(flat[1])) = 1
    /\ FileSections(flat[1])[1].path = <<"edge.sql">>

\* The markdown with the time of its "Flattened:" line blanked.
WithoutTimestamp(result) ==
    [present |-> result.present,
     val |-> [k \in DOMAIN result.val |->
                 IF result.val[k].kind = "flattened"
                 THEN [result.val[k] EXCEPT !.at = 0]
                 ELSE result.val[k]]]

\* C14: two flattenings of the same directory with no change to it in
\* between yield the same file sections in the same order with the same
\* content; the two results differ at most in the timestamp line.
C14_FlattenDeterministic ==
    \A k1, k2 \in DOMAIN flat :
       /\ FileSections(flat[k1]) = FileSections(flat[k2])
       /\ WithoutTimestamp(flat[k1]) = WithoutTimestamp(flat[k2])

C14_Witness ==
    /\ Len(flat) = 2
    /\ flat[1].present
    /\ Len(FileSections(flat[1])) = 3
    /\ flat[1] # flat[2]
    /\ WithoutTimestamp(flat[1]) = WithoutTimestamp(flat[2])

(***************************************************************************)
(* Claims about the gist fetcher (checked under SpecGist)                  *)
(***************************************************************************)
CallFails == reply.http # "ok" \/ reply.json # "object"

NoFileWithContent == \A k \in DOMAIN reply.files : reply.files[k].content # "text"

\* C15: get_gist_content never raises: for every gist id and every answer
\* of the API (transport or HTTP error, malformed JSON, a body that is no
\* object, null or missing members) it returns a list of 0 or 1 documents,
\* the document being that of the gist asked for, and the list is empty
\* whenever the call fails or the gist has no file with non-empty content.
C15_GistFetchNeverRaises ==
    (gistResult # NotFetched) =>
       /\ ~gistResult.raised
       /\ gistResult.returned
       /\ Len(gistResult.documents) <= 1
       /\ (CallFails \/ NoFileWithContent) => gistResult.documents = <<>>
       /\ gistResult.documents # <<>> =>
             /\ gistResult.documents[1].key = <<"gist_", gistId>>
             /\ gistResult.documents[1].type = "gist"

C15_Witness ==
    /\ gistResult.returned
    /\ reply.owner = "null"
    /\ Len(reply.files) = 2
    /\ reply.files[1].content = "text"
    /\ gistResult.documents = <<>>

(***************************************************************************)
(* Claims about the description extractor (checked under SpecExtract)      *)
(***************************************************************************)
MarkerAt == {k \in DOMAIN content : content[k].kind = "readme_marker"}

\* The lines collected from the README section: those after the first
\* "## README" line and before the next line starting with "## File:", the
\* empty lines, further markers and the headers naming the repository left out.
Collected ==
    LET first == CHOOSE k \in MarkerAt : \A m \in MarkerAt : k <= m
        ends == {k \in DOMAIN content :
                    k > first /\ content[k].kind = "file_marker" /\ ~content[k].indent}
        last == IF ends = {} THEN Len(content)
                ELSE (CHOOSE k \in ends : \A m \in ends : k <= m) - 1
        Kept(l) == /\ l.kind \notin {"blank", "readme_marker"}
                   /\ ~(l.kind = "header_named" /\ ~l.indent)
    IN SelectSeq(SubSeq(content, first + 1, last), Kept)

\* Of the first 10 collected lines, those that are no header and no
\* bold-metadata line.
UsableLines ==
    LET IsText(l) == l.kind = "text"
    IN SelectSeq(SubSeq(Collected, 1, IF Len(Collected) < 10 THEN Len(Collected) ELSE 10),
                 IsText)

RECURSIVE TextLen(_)
TextLen(n) ==
    IF n = 0 THEN 0
    ELSE IF n = 1 THEN UsableLines[1].len
    ELSE TextLen(n - 1) + 1 + UsableLines[n].len

\* The number of usable lines joined: up to and with the first one that
\* takes the joined text over 200 characters.
Taken ==
    LET over == {n \in 1..Len(UsableLines) : TextLen(n) > 200}
    IN IF over = {} THEN Len(UsableLines)
       ELSE CHOOSE n \in over : \A m \in over : n <= m

\* C16: extract_description_from_content always returns a string: the
\* sentence "Repository {owner}/{repo} containing code and documentation
\* files." when the markdown has no "## README" section or none of its first
\* 10 collected non-empty lines is usable (no header, no bold-metadata line);
\* otherwise the usable lines joined by spaces, taken only until the joined
\* text first exceeds 200 characters, cut to at most 500 characters.
C16_DescriptionOrFallback ==
    (description # NotExtracted) =>
       /\ description.returned
       /\ IF MarkerAt = {} \/ UsableLines = <<>>
          THEN description = FallbackDescription
          ELSE /\ ~description.fallback
               /\ description.lines = SubSeq(UsableLines, 1, Taken)
               /\ description.length = (IF TextLen(Taken) > 500 THEN 500 ELSE TextLen(Taken))
               /\ (Taken > 1 => TextLen(Taken - 1) <= 200)

\* Ten headers fill the window: the text after them is not looked at.
C16_Witness ==
    /\ description = FallbackDescription
    /\ Len(content) = 12
    /\ content[1].kind = "readme_marker"
    /\ content[2].kind = "header"
    /\ content[12].kind = "text"

(***************************************************************************)
(* Claims about cloning (checked under SpecClone)                          *)
(***************************************************************************)
\* The steps of a sparse checkout of (repoURL, branch, subdirectory), each
\* with what it is given: the directory is made, then init, remote add
\* origin <url>, config core.sparseCheckout true, the rule "{subdirectory}/",
\* fetch origin <branch>, checkout origin/<branch>, the check of the
\* subdirectory.
ExpectedSparse(repoURL, branch, subdirectory) ==
    <<[cmd |-> "mkdir", url |-> MkUrl(<<>>), text |-> <<>>],
      [cmd |-> "init", url |-> MkUrl(<<>>), text |-> <<>>],
      [cmd |-> "remote_add", url |-> repoURL, text |-> <<"origin">>],
      [cmd |-> "config", url |-> MkUrl(<<>>), text |-> <<>>],
      [cmd |-> "write_rule", url |-> MkUrl(<<>>), text |-> subdirectory \o <<"/">>],
      [cmd |-> "fetch", url |-> MkUrl(<<>>), text |-> <<"origin">> \o branch],
      [cmd |-> "checkout", url |-> MkUrl(<<>>), text |-> <<"origin/">> \o branch],
      [cmd |-> "verify", url |-> MkUrl(<<>>), text |-> subdirectory]>>

Invoked == [k \in DOMAIN commands |->
              [cmd |-> commands[k].cmd, url |-> commands[k].url, text |-> commands[k].text]]

AllSucceeded(n) == \A k \in 1..n : commands[k].outcome = "ok"

\* C17: clone_subdirectory runs its steps in the fixed order init, remote
\* add origin <url>, config core.sparseCheckout true, write the one rule
\* "{subdirectory}/", fetch origin <branch>, checkout origin/<branch>,
\* verify; the first step that exits non-zero, times out or raises makes the
\* result a failure and no later step is invoked; success is returned only
\* if every step succeeded and the subdirectory exists after the checkout.
C17_SparseStepsInOrder ==
    (strategy = "sparse") =>
       LET expected == ExpectedSparse(parsed.repoURL, parsed.branch.val,
                                      parsed.subdirectory.val)
       IN /\ Len(commands) <= Len(expected)
          /\ Invoked = SubSeq(expected, 1, Len(commands))
          /\ AllSucceeded(Len(commands) - 1)
          /\ cloneResult \in {"pending", "success", "failure"}
          /\ cloneResult = "failure" <=>
                (commands # <<>> /\ commands[Len(commands)].outcome # "ok")
          /\ cloneResult = "success" <=>
                (Len(commands) = Len(expected) /\ AllSucceeded(Len(commands)))

\* The fetch fails: the checkout and the check are not run.
C17_Witness ==
    /\ strategy = "sparse"
    /\ cloneResult = "failure"
    /\ Len(commands) = 6
    /\ commands[6].cmd = "fetch"
    /\ commands[6].outcome = "timeout"
    /\ commands[5].text = <<"a", "/", "b", "/">>

\* C18: clone_repository performs the sparse checkout of (branch,
\* subdirectory) exactly when the parsed location has a subdirectory (the
\* URL is written owner/repo/tree/branch/path), and otherwise one full
\* clone of the parsed repository URL: the canonical .git URL for a
\* tree/branch URL, the URL as given for any other.
C18_StrategyBySubdirectory ==
    (strategy # "none") =>
       /\ parsed = parse_github_url(url)
       /\ strategy = "sparse" <=> parsed.subdirectory.present
       /\ strategy = "full" <=> ~parsed.subdirectory.present
       /\ parsed.subdirectory.present <=> (TreeWritten /\ Len(Core) >= 5)
       /\ strategy = "sparse" =>
             /\ \A k \in DOMAIN commands : commands[k].cmd # "clone"
             /\ Len(commands) >= 6 =>
                   /\ commands[3].url = BaseUrl(Core[1], Core[2])
                   /\ commands[5].text = Join(SubSeq(Core, 5, Len(Core))) \o <<"/">>
                   /\ commands[6].text = <<"origin">> \o Core[4]
       /\ strategy = "full" =>
             /\ Len(commands) <= 1
             /\ cloneResult # "pending" <=> Len(commands) = 1
             /\ \A k \in DOMAIN commands :
                   /\ commands[k].cmd = "clone"
                   /\ commands[k].url =
                         (IF TreeWritten THEN BaseUrl(Core[1], Core[2]) ELSE url)

\* A tree/branch URL with no path after the branch is cloned in full.
C18_Witness ==
    /\ strategy = "full"
    /\ cloneResult = "success"
    /\ parsed.branch.present
    /\ commands[1].cmd = "clone"

(***************************************************************************)
(* Claims about provisioning over successive runs                          *)
(***************************************************************************)
\* The run under way, written as an ended run is kept.
ThisRun ==
    LET Setup(c) == c.api # "write_documents" IN
    [requests |-> SelectSeq(calls, Setup), collection |-> collResult,
     table |-> tableResult, error |-> error]

\* The runs of the setup assets so far, the one under way last.
ProvisioningRuns ==
    LET Ran(r) == r.requests # <<>> IN
    SelectSeq(IF runs = 0 THEN finished ELSE Append(finished, ThisRun), Ran)

RequestFailed(r) == r.error \notin {"none", "ValueError"}

RECURSIVE CreateRequests(_, _)
CreateRequests(rs, api) ==
    IF rs = <<>> THEN 0
    ELSE LET Is(c) == c.api = api
         IN Len(SelectSeq(Head(rs).requests, Is)) + CreateRequests(Tail(rs), api)

C22_WriteAddressedToProvisioned ==
    collResult.status # "none" =>
        /\ \A k \in DOMAIN calls :
              calls[k].api \in TableApis \cup {"write_documents"}
                 => calls[k].coll = collResult.id
        /\ \A k \in DOMAIN writes :
              /\ writes[k].coll = collResult.id
              /\ writes[k].table = tableResult.id

(***************************************************************************)
(* Claims about the documents and counters of github_table_fill            *)
(***************************************************************************)
\* The categories configured for the repository a document was built from.
ConfiguredCategories(doc) ==
    {repositories[k].category : k \in
        {n \in DOMAIN repositories :
            doc.key = <<repositories[n].owner, "/", repositories[n].repo>>}}

Tagged(doc) ==
    /\ doc.source = "github_component"
    /\ doc.category # NoTag
    /\ doc.type = "repository" => doc.category \in ConfiguredCategories(doc)
    /\ doc.type = "gist" => doc.category = "gist"

\* C23: every document of the list handed to write_documents, and of the
\* request it sends, carries source "github_component" and a category: the
\* category configured for its repository, or "gist" for a gist document.
C23_EveryWrittenDocumentTagged ==
    /\ \A k \in DOMAIN writes :
          \A d \in DOMAIN writes[k].docs : Tagged(writes[k].docs[d])
    /\ \A k \in DOMAIN WriteRequests :
          \A d \in DOMAIN WriteRequests[k].docs : Tagged(WriteRequests[k].docs[d])

\* A batch with a repository document and a gist document was written.
C23_Witness ==
    /\ Len(writes) = 1
    /\ \E d \in DOMAIN writes[1].docs :
          /\ writes[1].docs[d].type = "repository"
          /\ writes[1].docs[d].category = "official"
    /\ \E d \in DOMAIN writes[1].docs :
          /\ writes[1].docs[d].type = "gist"
          /\ writes[1].docs[d].category = "gist"

\* C25: when the collected list is empty after every source was attempted,
\* the run sends no write request and reports the write as skipped, and
\* write_documents, handed the empty list, returns without a request.
C25_EmptyBatchSkipsWrite ==
    (FillDone /\ all_documents = <<>>) =>
        /\ WriteRequests = <<>>
        /\ report.scout_write = "skipped - no documents"
        /\ report.total_documents = 0
        /\ write_documents(envCollectionId, table_id, all_documents) = <<>>

\* Two sources were configured and attempted, and neither gave a document.
C25_Witness ==
    /\ FillDone
    /\ Len(attempted) = 2
    /\ \A k \in DOMAIN outcomes : outcomes[k] # "document"
    /\ all_documents = <<>>
    /\ report.scout_write = "skipped - no documents"

RealGists == {k \in DOMAIN gists : gists[k] \notin PlaceholderIds}

\* Between two sources, between the loops, at the write and after it.
BetweenSources == pc \in {"repositories", "gists", "write", "done"}

\* C29: throughout the source loops and at the batch write, the collected
\* list has repositories_processed + gists_processed documents; neither
\* counter exceeds the number of configured repositories, respectively of
\* configured gists that are no placeholder; and each counter is the number
\* of sources of its kind whose fetch gave a document, so a failed fetch or
\* a flatten yielding none adds to neither.
C29_CountersMatchDocuments ==
    HasHandle =>
        /\ Len(all_documents) = repos_processed + gists_processed
        /\ repos_processed <= Len(repositories)
        /\ gists_processed <= Cardinality(RealGists)
        /\ repos_processed <= Produced("repository")
        /\ BetweenSources =>
              /\ repos_processed = Produced("repository")
              /\ gists_processed = Produced("gist")
        /\ \A k \in DOMAIN writes :
              Len(writes[k].docs) = repos_processed + gists_processed

\* A flatten yielded none, a gist fetch failed, and the two other sources
\* gave a document each.
C29_Witness ==
    /\ FillDone
    /\ outcomes = <<"flatten_none", "document", "gist_error", "document">>
    /\ repos_processed = 1
    /\ gists_processed = 1
    /\ Len(writes) = 1
    /\ Len(writes[1].docs) = 2

(***************************************************************************)
(* Claims about a recreation that fails half way                           *)
(***************************************************************************)
Asked(r, api) == \E k \in DOMAIN r.requests : r.requests[k].api = api

\* The run deleted the table on a forced recreation and its create_table
\* request then failed.
RecreateBroken(r) == r.error = "create_table" /\ Asked(r, "delete_table")

NamedTables ==
    {k \in DOMAIN remoteTables :
        remoteTables[k].coll = envCollectionId /\ remoteTables[k].name = table_name}

\* C28: when a forced recreation deletes the table and create_table then
\* fails, the run fails with that error and returns no table, the store is
\* left without a table of the configured name, and the next provisioning
\* run finds none, deletes nothing and returns a new table with status
\* "created".
C28_FailedRecreateLosesTable ==
    LET rs == ProvisioningRuns IN
    /\ (runs > 0 /\ RecreateBroken(ThisRun)) =>
          /\ pc = "failed"
          /\ tableResult = NoResult
          /\ NamedTables = {}
    /\ \A k \in DOMAIN rs : (k < Len(rs) /\ RecreateBroken(rs[k])) =>
          /\ ~Asked(rs[k + 1], "delete_table")
          /\ rs[k + 1].table.status \in {"none", "created"}
          /\ rs[k + 1].table.status = "created" =>
                rs[k + 1].table.id \notin
                   {rs[k].requests[n].table : n \in DOMAIN rs[k].requests}

\* A recreation lost the table and the run after it has created a new one.
C28_Witness ==
    /\ Len(finished) = 1
    /\ RecreateBroken(finished[1])
    /\ force_recreate_table
    /\ tableResult.status = "created"
    /\ NamedTables # {}

(***************************************************************************)
(* Claims about the downloader                                             *)
(***************************************************************************)
\* The loop of download_repositories is at a source whose URL it can parse.
AtSource ==
    /\ phase = "repositories"
    /\ Len(results) < Len(repoUrls)
    /\ extract_repo_info(repoUrls[Len(results) + 1]).found

Here == disk[TargetOf(repoUrls[Len(results) + 1])]

\* The sources of this run recorded as successful without a fetch.
SkippedSources ==
    {k \in DOMAIN results :
        results[k] /\ \A n \in DOMAIN gitCalls : gitCalls[n] # k}

\* C24: in download_repositories, a source whose destination exists and is
\* not empty gets no git command, leaves the disk as it is and is recorded
\* as successful; a source whose destination is missing or empty is fetched.
C24_ExistingDestinationSkipsFetch ==
    [][AtSource =>
          IF Here.content \in {"partial", "checkout"}
          THEN /\ gitCalls' = gitCalls
               /\ disk' = disk
               /\ results' = Append(results, TRUE)
          ELSE gitCalls' = Append(gitCalls, Len(results) + 1)]_vars

\* In a second run the first source was skipped over its checkout and the
\* second, whose destination held nothing, was fetched.
C24_Witness ==
    /\ downloads = 2
    /\ Len(results) = 2
    /\ SkippedSources = {1}
    /\ gitCalls = <<2>>
    /\ disk[TargetOf(repoUrls[1])].content = "checkout"
    /\ disk[TargetOf(repoUrls[2])].by = 2

\* C26: a destination that makes download_repositories skip its source as
\* already there holds what a fetch that returned success wrote, so a
\* source whose clone or sparse checkout failed in an earlier run is
\* fetched again and not skipped.
C26_SkippedOnlyAfterSuccessfulFetch ==
    \A k \in SkippedSources :
        extract_repo_info(repoUrls[k]).found =>
            disk[TargetOf(repoUrls[k])].content = "checkout"

\* Two URLs name the same source: the same owner and repository, the same
\* branch and the same subdirectory.
SameSource(u, v) ==
    /\ extract_repo_info(u) = extract_repo_info(v)
    /\ parse_github_url(u).branch = parse_github_url(v).branch
    /\ parse_github_url(u).subdirectory = parse_github_url(v).subdirectory

C30_RunReturnsAfterFourPhases ==
    /\ \E n \in 0..4 :
          completed = SubSeq(<<"download_repositories", "download_gists",
                               "flatten_all_repositories", "generate_report">>, 1, n)
    /\ (Len(completed) = 4 /\ phase # "summary") => phase = "exit_0"

====
